---- MODULE Spec2Model ----
(***************************************************************************)
(* Diff-based calendar sync (scripts/diff_sync.py, sync_calendars.py,      *)
(* sync_private_calendars.py).                                             *)
(*                                                                         *)
(* Python values are modelled as follows.  A dict is a function whose      *)
(* DOMAIN is its key set, so an absent field is a field outside DOMAIN.    *)
(* A mapping upn -> list is iterated in the fixed order OwnerOrder (the    *)
(* insertion order of the Python dict only decides the order of the        *)
(* result lists).  Python True / False / None are the strings "True",      *)
(* "False", "None".  An Outlook event id is a positive integer; 0 stands   *)
(* for a falsy id ("" or a missing field).                                 *)
(***************************************************************************)
EXTENDS Integers, Sequences, FiniteSets, TLC

VARIABLES
    files,      \* data/last_synced/{agenda}.json : agenda -> NoFile or state
    remote,     \* the live events of the remote calendar store
    nextId,     \* the next event id the remote store hands out
    now,        \* the clock datetime.now() reads: one tick per reading, wrapping
    run,        \* per runner: the locals of main() and apply_*_diff
    call,       \* the arguments of a function invoked on its own
    ret         \* its return value

vars == <<files, remote, nextId, now, run, call, ret>>

(***************************************************************************)
(* Bounds of the model.                                                    *)
(***************************************************************************)
MaxLen == 2          \* longest per-owner list drawn as an input
MaxIds == 2          \* event ids the remote store hands out
ClockTicks == 2      \* the clock is read modulo ClockTicks

(***************************************************************************)
(* Python helpers.                                                         *)
(***************************************************************************)
None == "None"
NoId == 0

Get(d, f, default) == IF f \in DOMAIN d THEN d[f] ELSE default

Truthy(v) == v \notin {None, "False", ""}

\* the id not tested at all
TruthyIdAlways(id) == TRUE

TruthyId(id) == id # NoId

Range(s) == {s[i] : i \in 1..Len(s)}

SeqsUpTo(S, n) == UNION {[1..k -> S] : k \in 0..n}

Owners == {"u1", "u2"}
OwnerOrder == <<"u1", "u2">>

\* for upn, evs in mapping.items(): for ev in evs  ->  <<upn, ev>>, in order
RECURSIVE FlattenFrom(_, _)
FlattenFrom(m, i) ==
    IF i > Len(OwnerOrder) THEN <<>>
    ELSE LET u == OwnerOrder[i]
             here == IF u \in DOMAIN m
                     THEN [j \in 1..Len(m[u]) |-> <<u, m[u][j]>>]
                     ELSE <<>>
         IN here \o FlattenFrom(m, i + 1)

Flatten(m) == FlattenFrom(m, 1)

(***************************************************************************)
(* Diff engine.                                                            *)
(***************************************************************************)
\* the start time left out of the identity key
MethodKeyNoStart(upn, ev) == <<upn, ev["day"]>>

MethodKey(upn, ev) == <<upn, ev["day"], ev["start"]>>

VipKey(upn, ev) == <<upn, ev["date"], ev["start"], Get(ev, "type", "")>>

KeyOf(kind, upn, ev) ==
    IF kind = "method" THEN MethodKey(upn, ev) ELSE VipKey(upn, ev)

\* the new slot's end read under a wrong field name
MethodChangedWrongField(old_ev, new_slot) ==
    old_ev["end"] # Get(new_slot, "end_time", None)

MethodChanged(old_ev, new_slot) == old_ev["end"] # new_slot["end"]

\* the online flag not compared
VipChangedEndOnly(old_ev, new_slot) == old_ev["end"] # new_slot["end"]

VipChanged(old_ev, new_slot) ==
    \/ old_ev["end"] # new_slot["end"]
    \/ Get(old_ev, "online", None) # Get(new_slot, "online", None)

ChangedOf(kind, old_ev, new_slot) ==
    IF kind = "method" THEN MethodChanged(old_ev, new_slot)
    ELSE VipChanged(old_ev, new_slot)

\* a list of (key, value) pairs in place of the dict: nothing overwritten
IndexByKeyNoOverwrite(kind, items) ==
    [p \in 1..Len(items) |->
        [key |-> KeyOf(kind, items[p][1], items[p][2]), val |-> items[p]]]

\* d = {}; for (upn, x) in items: d[key(upn, x)] = (upn, x)
\* a key already indexed is not overwritten: the first value is kept
IndexByKeyFirstWins(kind, items) ==
    LET n == Len(items)
        K(i) == KeyOf(kind, items[i][1], items[i][2])
        firsts == SelectSeq([i \in 1..n |-> i],
                            LAMBDA i : \A j \in 1..(i - 1) : K(j) # K(i))
    IN [p \in 1..Len(firsts) |->
           [key |-> K(firsts[p]), val |-> items[firsts[p]]]]

\* a dict keeps the position of a key's first insertion and its last value
IndexByKey(kind, items) ==
    LET n == Len(items)
        K(i) == KeyOf(kind, items[i][1], items[i][2])
        firsts == SelectSeq([i \in 1..n |-> i],
                            LAMBDA i : \A j \in 1..(i - 1) : K(j) # K(i))
        last(i) == CHOOSE j \in i..n :
                       K(j) = K(i) /\ \A l \in (j + 1)..n : K(l) # K(i)
    IN [p \in 1..Len(firsts) |->
           [key |-> K(firsts[p]), val |-> items[last(firsts[p])]]]

HasKey(idx, k) == \E p \in 1..Len(idx) : idx[p].key = k

Lookup(idx, k) == idx[CHOOSE p \in 1..Len(idx) : idx[p].key = k].val

\* the body shared by compute_method_diff and compute_vip_diff
ComputeDiff(kind, old_events, new_schedule) ==
    LET old_by_key == IndexByKey(kind, Flatten(old_events))
        new_by_key == IndexByKey(kind, Flatten(new_schedule))
        rem == SelectSeq(old_by_key, LAMBDA e : ~HasKey(new_by_key, e.key))
        both == SelectSeq(old_by_key, LAMBDA e : HasKey(new_by_key, e.key))
        chg == SelectSeq(both,
                   LAMBDA e : ChangedOf(kind, e.val[2],
                                        Lookup(new_by_key, e.key)[2]))
        add == SelectSeq(new_by_key, LAMBDA e : ~HasKey(old_by_key, e.key))
    IN [added |-> [i \in 1..Len(add) |-> add[i].val],
        removed |-> [i \in 1..Len(rem) |-> rem[i].val],
        changed |-> [i \in 1..Len(chg) |->
                        <<chg[i].val[1], chg[i].val[2],
                          Lookup(new_by_key, chg[i].key)[2]>>],
        unchanged_count |-> Len(both) - Len(chg)]

compute_method_diff(old_events, new_schedule) ==
    ComputeDiff("method", old_events, new_schedule)

compute_vip_diff(old_events, new_schedule) ==
    ComputeDiff("vip", old_events, new_schedule)

(***************************************************************************)
(* Snapshot merger.                                                        *)
(***************************************************************************)
\* a changed old event kept under its id with the end of the new slot
merge_synced_events_update_in_place(old_events, diff, applied_events) ==
    LET ids == {e \in {Get(diff.removed[i][2], "outlook_event_id", NoId) :
                          i \in 1..Len(diff.removed)} : e # NoId}
        newEnd(ev) ==
            IF \E i \in 1..Len(diff.changed) : diff.changed[i][2] = ev
            THEN diff.changed[CHOOSE i \in 1..Len(diff.changed) :
                                  diff.changed[i][2] = ev][3]["end"]
            ELSE ev["end"]
        kept(u) ==
            LET k == SelectSeq(old_events[u],
                         LAMBDA ev : Get(ev, "outlook_event_id", NoId) \notin ids)
            IN [i \in 1..Len(k) |-> [k[i] EXCEPT !["end"] = newEnd(k[i])]]
        keptOwners == {u \in DOMAIN old_events : kept(u) # <<>>}
    IN [u \in keptOwners \cup DOMAIN applied_events |->
           (IF u \in keptOwners THEN kept(u) ELSE <<>>)
           \o (IF u \in DOMAIN applied_events THEN applied_events[u] ELSE <<>>)]

\* the applied events put before the kept old events
merge_synced_events_applied_first(old_events, diff, applied_events) ==
    LET ids == {e \in {Get(diff.removed[i][2], "outlook_event_id", NoId) :
                          i \in 1..Len(diff.removed)}
                      \cup {Get(diff.changed[i][2], "outlook_event_id", NoId) :
                               i \in 1..Len(diff.changed)} : e # NoId}
        kept(u) == SelectSeq(old_events[u],
                       LAMBDA ev : Get(ev, "outlook_event_id", NoId) \notin ids)
        keptOwners == {u \in DOMAIN old_events : kept(u) # <<>>}
    IN [u \in keptOwners \cup DOMAIN applied_events |->
           (IF u \in DOMAIN applied_events THEN applied_events[u] ELSE <<>>)
           \o (IF u \in keptOwners THEN kept(u) ELSE <<>>)]

\* only the ids of diff["changed"] collected, those of diff["removed"] not
merge_synced_events_changed_only(old_events, diff, applied_events) ==
    LET ids == {e \in {Get(diff.changed[i][2], "outlook_event_id", NoId) :
                          i \in 1..Len(diff.changed)} : e # NoId}
        kept(u) == SelectSeq(old_events[u],
                       LAMBDA ev : Get(ev, "outlook_event_id", NoId) \notin ids)
        keptOwners == {u \in DOMAIN old_events : kept(u) # <<>>}
    IN [u \in keptOwners \cup DOMAIN applied_events |->
           (IF u \in keptOwners THEN kept(u) ELSE <<>>)
           \o (IF u \in DOMAIN applied_events THEN applied_events[u] ELSE <<>>)]

\* only the ids of diff["removed"] collected, those of diff["changed"] not
merge_synced_events_removed_only(old_events, diff, applied_events) ==
    LET ids == {e \in {Get(diff.removed[i][2], "outlook_event_id", NoId) :
                          i \in 1..Len(diff.removed)} : e # NoId}
        kept(u) == SelectSeq(old_events[u],
                       LAMBDA ev : Get(ev, "outlook_event_id", NoId) \notin ids)
        keptOwners == {u \in DOMAIN old_events : kept(u) # <<>>}
    IN [u \in keptOwners \cup DOMAIN applied_events |->
           (IF u \in keptOwners THEN kept(u) ELSE <<>>)
           \o (IF u \in DOMAIN applied_events THEN applied_events[u] ELSE <<>>)]

merge_synced_events(old_events, diff, applied_events) ==
    LET removed_ids ==
            {Get(diff.removed[i][2], "outlook_event_id", NoId) :
                 i \in 1..Len(diff.removed)}
            \cup {Get(diff.changed[i][2], "outlook_event_id", NoId) :
                      i \in 1..Len(diff.changed)}
        ids == {e \in removed_ids : e # NoId}
        kept(u) == SelectSeq(old_events[u],
                       LAMBDA ev : Get(ev, "outlook_event_id", NoId) \notin ids)
        keptOwners == {u \in DOMAIN old_events : kept(u) # <<>>}
    IN [u \in keptOwners \cup DOMAIN applied_events |->
           (IF u \in keptOwners THEN kept(u) ELSE <<>>)
           \o (IF u \in DOMAIN applied_events THEN applied_events[u] ELSE <<>>)]

(***************************************************************************)
(* Snapshot store: one state file per agenda key.                          *)
(***************************************************************************)
\* load_last_synced returns None when the path does not exist
NoFile == [exists |-> "False"]

Agendas == {"all_method", "all_private"}

StateAgenda(kind) == IF kind = "method" THEN "all_method" ELSE "all_private"

SyncType(kind) == IF kind = "method" THEN "method" ELSE "vip"

\* a state file without events taken for no state file
load_last_synced_empty_is_none(fs, agenda) ==
    IF fs[agenda] # NoFile /\ fs[agenda].events = <<>> THEN NoFile
    ELSE fs[agenda]

\* the events of the state file not read back
load_last_synced_without_events(fs, agenda) ==
    IF fs[agenda] = NoFile THEN NoFile
    ELSE [fs[agenda] EXCEPT !.events = <<>>]

load_last_synced(fs, agenda) == fs[agenda]

\* the stored events patched with the new ones, owner by owner
save_synced_state_patch(fs, clock, agenda, sync_type, events) ==
    LET before == IF fs[agenda] = NoFile THEN <<>> ELSE fs[agenda].events
    IN [fs EXCEPT ![agenda] =
           [synced_at |-> clock, agenda |-> agenda, sync_type |-> sync_type,
            events |-> [u \in DOMAIN before \cup DOMAIN events |->
                           IF u \in DOMAIN events THEN events[u]
                           ELSE before[u]]]]

save_synced_state(fs, clock, agenda, sync_type, events) ==
    [fs EXCEPT ![agenda] = [synced_at |-> clock, agenda |-> agenda,
                            sync_type |-> sync_type, events |-> events]]

(***************************************************************************)
(* Event bodies and snapshot entries.                                      *)
(***************************************************************************)
CALENDAR_EVENT_SUBJECT == "Teaching"
PRIVATE_EVENT_PREFIX == "Private:"

ActivityLabel(code) == IF code = "VAD" THEN "VIP Adults" ELSE "Private Lesson"

\* f"{PRIVATE_EVENT_PREFIX} {code} - {label}" [+ " (Online)"], as its parts
get_event_subject(slot) ==
    LET code == Get(slot, "type", "")
    IN <<PRIVATE_EVENT_PREFIX, code, ActivityLabel(code),
         IF Truthy(Get(slot, "online", None)) THEN " (Online)" ELSE "">>

get_category_name(slot) ==
    LET code == Get(slot, "type", "")
    IN IF Truthy(code) THEN <<code, ActivityLabel(code)>>
       ELSE <<"Private Lesson">>

\* the recurring event of one teaching slot (its weekly anchor date left out)
build_event_body(slot) ==
    [subject |-> CALENDAR_EVENT_SUBJECT, day |-> slot["day"],
     start |-> slot["start"], end |-> slot["end"]]

build_private_event_body(slot) ==
    [subject |-> get_event_subject(slot), date |-> slot["date"],
     start |-> slot["start"], end |-> slot["end"],
     categories |-> <<get_category_name(slot)>>]

BuildBody(kind, slot) ==
    IF kind = "method" THEN build_event_body(slot)
    ELSE build_private_event_body(slot)

\* the end stored from the slot's start
MethodSyncedEventEndFromStart(new_event_id, new_slot, body) ==
    [outlook_event_id |-> new_event_id, day |-> new_slot["day"],
     start |-> new_slot["start"], end |-> new_slot["start"],
     subject |-> Get(body, "subject", "")]

\* the dict appended to synced_events / created_events after a create
MethodSyncedEvent(new_event_id, new_slot, body) ==
    [outlook_event_id |-> new_event_id, day |-> new_slot["day"],
     start |-> new_slot["start"], end |-> new_slot["end"],
     subject |-> Get(body, "subject", "")]

VipSyncedEvent(new_event_id, new_slot) ==
    [outlook_event_id |-> new_event_id, date |-> new_slot["date"],
     start |-> new_slot["start"], end |-> new_slot["end"],
     type |-> Get(new_slot, "type", ""),
     subject |-> get_event_subject(new_slot),
     online |-> Get(new_slot, "online", "False")]

SyncedEvent(kind, new_event_id, new_slot, body) ==
    IF kind = "method" THEN MethodSyncedEvent(new_event_id, new_slot, body)
    ELSE VipSyncedEvent(new_event_id, new_slot)

\* the label of an error string
SlotLabel(kind, s) ==
    IF kind = "method" THEN <<s["day"], s["start"], s["end"]>>
    ELSE <<s["date"], s["start"], s["end"], Get(s, "type", "")>>

ChangedDeleteLabel(kind, s) ==
    IF kind = "method" THEN <<s["day"], s["start"], s["end"]>>
    ELSE <<s["date"], s["start"]>>

ComputeDiffOf(kind, old_events, new_schedule) ==
    IF kind = "method" THEN compute_method_diff(old_events, new_schedule)
    ELSE compute_vip_diff(old_events, new_schedule)

(***************************************************************************)
(* The remote calendar store (Microsoft Graph), as the scripts see it.     *)
(* A live event is [id, upn, body].  A call answers with a status; a       *)
(* failed call leaves the store as it was.                                 *)
(***************************************************************************)
Live(rem, upn, id) == \E e \in rem : e.id = id /\ e.upn = upn

\* graph_delete: the <<status, store after>> it may answer with
GraphDelete(rem, upn, id) ==
    IF Live(rem, upn, id)
    THEN {<<204, {e \in rem : e.id # id}>>, <<503, rem>>}
    ELSE {<<404, rem>>}

\* graph_post: the <<status, new id, store after>> it may answer with
GraphPost(rem, nid, upn, body) ==
    {<<503, NoId, rem>>}
    \cup IF nid <= MaxIds
         THEN {<<201, nid, rem \cup {[id |-> nid, upn |-> upn, body |-> body]}>>}
         ELSE {}

(***************************************************************************)
(* The desired schedules main() is run with (new_schedule_by_upn).         *)
(***************************************************************************)
MethodSlots ==
    [day : {"Monday"}, start : {"09:00"}, end : {"10:00", "11:00"}]
    \cup [day : {"Monday"}, start : {"09:01"}, end : {"10:00"}]

VipSlots ==
    [date : {"2026-01-05"}, start : {"09:00"}, end : {"10:00", "11:00"},
     type : {"VAD"}, name : {"n"}, online : {"False"}]
    \cup [date : {"2026-01-05"}, start : {"09:00"}, end : {"10:00"},
          type : {"VAD"}, name : {"n"}, online : {"True"}]

SlotsOf(kind) == IF kind = "method" THEN MethodSlots ELSE VipSlots

KeysIncrease(kind, upn, slots) ==
    \A i, j \in 1..Len(slots) :
        i < j => KeyOf(kind, upn, slots[i]) # KeyOf(kind, upn, slots[j])
                 /\ slots[i]["end"] = "10:00"

\* "u1" with up to MaxLen slots of distinct identity keys, "u2" with at most
\* one slot
DesiredFor(kind) ==
    LET l1 == {q \in SeqsUpTo(SlotsOf(kind), MaxLen) : KeysIncrease(kind, "u1", q)}
        l2 == {q \in SeqsUpTo(SlotsOf(kind), 1) :
                   \A i \in 1..Len(q) : q[i]["end"] = "11:00"}
    IN {<<>>} \cup {("u1" :> a) : a \in l1}
       \cup {("u1" :> a) @@ ("u2" :> b) : a \in l1, b \in l2 \ {<<>>}}

MethodDesired == DesiredFor("method")

VipDesired == DesiredFor("vip")

DesiredSchedules(kind) == IF kind = "method" THEN MethodDesired ELSE VipDesired

(***************************************************************************)
(* main() of sync_calendars.py / sync_private_calendars.py in --execute    *)
(* mode, one step per remote call.                                         *)
(***************************************************************************)
Runners == {1, 2}

EmptyDiff == [added |-> <<>>, removed |-> <<>>, changed |-> <<>>,
              unchanged_count |-> 0]

IdleRun(kind) ==
    [pc |-> "idle", kind |-> kind, last |-> "none",
     new_schedule |-> <<>>, old_events |-> <<>>, diff |-> EmptyDiff,
     oi |-> 0, i |-> 0,
     created |-> 0, deleted |-> 0, failed |-> 0, errors |-> <<>>,
     synced_events |-> <<>>, created_events |-> <<>>, calls |-> <<>>]

\* matched: the owners of the desired schedule, in order
Matched(new_schedule) ==
    SelectSeq(OwnerOrder, LAMBDA u : u \in DOMAIN new_schedule)

\* the changed loop placed before the removed loop
PhaseFromChangedFirst(diff, phase) ==
    IF phase = "removed" /\ diff.changed # <<>> THEN "changed"
    ELSE IF phase \in {"removed", "added"} /\ diff.removed # <<>>
         THEN "removed"
    ELSE IF phase \in {"removed", "changed", "added"} /\ diff.added # <<>>
         THEN "added"
    ELSE "merge"

\* where apply_*_diff goes on: the first non-empty loop from `phase` on
PhaseFrom(diff, phase) ==
    IF phase = "removed" /\ diff.removed # <<>> THEN "removed"
    ELSE IF phase \in {"removed", "changed"} /\ diff.changed # <<>>
         THEN "changed"
    ELSE IF phase \in {"removed", "changed", "added"} /\ diff.added # <<>>
         THEN "added"
    ELSE "merge"

\* the loops left at the first failure
AdvanceStopsOnFailure(rn, list, phase, nextPhase) ==
    IF rn.failed > 0 THEN [rn EXCEPT !.pc = "merge", !.i = 1]
    ELSE IF rn.i < Len(list) THEN [rn EXCEPT !.pc = phase, !.i = rn.i + 1]
    ELSE [rn EXCEPT !.pc = PhaseFrom(rn.diff, nextPhase), !.i = 1]

\* the next iteration of the loop over `list`, or the next loop
Advance(rn, list, phase, nextPhase) ==
    IF rn.i < Len(list) THEN [rn EXCEPT !.pc = phase, !.i = rn.i + 1]
    ELSE [rn EXCEPT !.pc = PhaseFrom(rn.diff, nextPhase), !.i = 1]

\* _ensure_upn
EnsureUpn(synced_events, upn) ==
    IF upn \in DOMAIN synced_events THEN synced_events
    ELSE synced_events @@ (upn :> <<>>)

\* the changed list left out of the test
IsEmptyDiffWithoutChanged(diff) ==
    diff.added = <<>> /\ diff.removed = <<>>

IsEmptyDiff(diff) ==
    diff.added = <<>> /\ diff.removed = <<>> /\ diff.changed = <<>>

\* main(), steps 1-5 up to the first remote call
StartWith(r, new_schedule) ==
    /\ run[r].pc = "idle"
    /\   LET kind == run[r].kind
             last_synced == load_last_synced(files, StateAgenda(kind))
             fresh == [IdleRun(kind) EXCEPT !.new_schedule = new_schedule]
         IN IF last_synced = NoFile
            THEN run' = [run EXCEPT ![r] =
                     [fresh EXCEPT !.pc = IF Matched(new_schedule) = <<>>
                                          THEN "first_save" ELSE "clear",
                                   !.oi = 1]]
            ELSE LET old_events == last_synced.events
                     diff == ComputeDiffOf(kind, old_events, new_schedule)
                 IN run' = [run EXCEPT ![r] =
                      [fresh EXCEPT !.old_events = old_events, !.diff = diff,
                                    !.i = 1,
                                    !.last = IF IsEmptyDiff(diff)
                                             THEN "noop" ELSE "none",
                                    !.pc = IF IsEmptyDiff(diff) THEN "done"
                                           ELSE PhaseFrom(diff, "removed")]]
    /\ UNCHANGED <<files, remote, nextId, now, call, ret>>

\* main() with the desired schedule its input files give
Start(r) ==
    \E new_schedule \in DesiredSchedules(run[r].kind) :
        StartWith(r, new_schedule)

\* one remote call recorded in the run's call log
DeleteCall(phase, upn, id, status) ==
    [op |-> "delete", phase |-> phase, upn |-> upn, id |-> id,
     status |-> status]

CreateCall(phase, upn, slot, status, id) ==
    [op |-> "create", phase |-> phase, upn |-> upn, slot |-> slot,
     status |-> status, id |-> id]

\* any answer of the store taken for a success
DeleteOkAnyStatus(status) == status >= 200

DeleteOk(status) == status = 204

CreateOk(status) == status \in {200, 201}

\* a failed create logged in errors but not counted in failed
AfterCreateNoFailedCount(rn, phase, tag, upn, new_slot, out) ==
    LET body == BuildBody(rn.kind, new_slot)
        logged == [rn EXCEPT !.calls =
                      Append(@, CreateCall(phase, upn, new_slot, out[1], out[2]))]
    IN IF CreateOk(out[1])
       THEN [logged EXCEPT
                !.created = @ + 1,
                !.synced_events[upn] =
                    Append(@, SyncedEvent(rn.kind, out[2], new_slot, body))]
       ELSE [logged EXCEPT
                !.errors = Append(@, <<tag, upn, SlotLabel(rn.kind, new_slot),
                                       out[1]>>)]

\* the create path shared by the changed and the added loop
AfterCreate(rn, phase, tag, upn, new_slot, out) ==
    LET body == BuildBody(rn.kind, new_slot)
        logged == [rn EXCEPT !.calls =
                      Append(@, CreateCall(phase, upn, new_slot, out[1], out[2]))]
    IN IF CreateOk(out[1])
       THEN [logged EXCEPT
                !.created = @ + 1,
                !.synced_events[upn] =
                    Append(@, SyncedEvent(rn.kind, out[2], new_slot, body))]
       ELSE [logged EXCEPT
                !.errors = Append(@, <<tag, upn, SlotLabel(rn.kind, new_slot),
                                       out[1]>>),
                !.failed = @ + 1]

\* apply_*_diff: one iteration of "for upn, old_ev in diff['removed']"
DeleteRemoved(r) ==
    /\ run[r].pc = "removed"
    /\ LET rn == run[r]
           upn == rn.diff.removed[rn.i][1]
           old_ev == rn.diff.removed[rn.i][2]
           event_id == Get(old_ev, "outlook_event_id", NoId)
       IN IF ~TruthyId(event_id)
          THEN /\ run' = [run EXCEPT ![r] =
                              Advance(rn, rn.diff.removed, "removed", "changed")]
               /\ UNCHANGED remote
          ELSE \E out \in GraphDelete(remote, upn, event_id) :
                 LET logged == [rn EXCEPT !.calls =
                         Append(@, DeleteCall("removed", upn, event_id, out[1]))]
                     after ==
                         IF DeleteOk(out[1])
                         THEN [logged EXCEPT !.deleted = @ + 1]
                         ELSE [logged EXCEPT
                                  !.errors = Append(@,
                                      <<"delete", upn,
                                        SlotLabel(rn.kind, old_ev), out[1]>>),
                                  !.failed = @ + 1]
                 IN /\ remote' = out[2]
                    /\ run' = [run EXCEPT ![r] =
                           Advance(after, rn.diff.removed, "removed", "changed")]
    /\ UNCHANGED <<files, nextId, now, call, ret>>

\* "for upn, old_ev, new_slot in diff['changed']": _ensure_upn, delete old
ChangedDelete(r) ==
    /\ run[r].pc = "changed"
    /\ LET rn == [run[r] EXCEPT !.synced_events =
                     EnsureUpn(@, run[r].diff.changed[run[r].i][1])]
           upn == rn.diff.changed[rn.i][1]
           old_ev == rn.diff.changed[rn.i][2]
           event_id == Get(old_ev, "outlook_event_id", NoId)
       IN IF ~TruthyId(event_id)
          THEN /\ run' = [run EXCEPT ![r] = [rn EXCEPT !.pc = "changed_create"]]
               /\ UNCHANGED remote
          ELSE \E out \in GraphDelete(remote, upn, event_id) :
                 LET logged == [rn EXCEPT !.calls =
                         Append(@, DeleteCall("changed", upn, event_id, out[1]))]
                 IN /\ remote' = out[2]
                    /\ run' = [run EXCEPT ![r] =
                         IF DeleteOk(out[1])
                         THEN [logged EXCEPT !.deleted = @ + 1,
                                             !.pc = "changed_create"]
                         ELSE \* continue: skip create if delete failed
                              Advance([logged EXCEPT
                                  !.errors = Append(@,
                                      <<"delete-changed", upn,
                                        ChangedDeleteLabel(rn.kind, old_ev),
                                        out[1]>>),
                                  !.failed = @ + 1],
                                  rn.diff.changed, "changed", "added")]
    /\ UNCHANGED <<files, nextId, now, call, ret>>

\* the changed loop, "Create new"
ChangedCreate(r) ==
    /\ run[r].pc = "changed_create"
    /\ LET rn == run[r]
           upn == rn.diff.changed[rn.i][1]
           new_slot == rn.diff.changed[rn.i][3]
       IN \E out \in GraphPost(remote, nextId, upn, BuildBody(rn.kind, new_slot)) :
            /\ remote' = out[3]
            /\ nextId' = IF CreateOk(out[1]) THEN nextId + 1 ELSE nextId
            /\ run' = [run EXCEPT ![r] =
                   Advance(AfterCreate(rn, "changed", "create-changed", upn,
                                       new_slot, out),
                           rn.diff.changed, "changed", "added")]
    /\ UNCHANGED <<files, now, call, ret>>

\* "for upn, new_slot in diff['added']"
AddedCreate(r) ==
    /\ run[r].pc = "added"
    /\ LET rn == [run[r] EXCEPT !.synced_events =
                     EnsureUpn(@, run[r].diff.added[run[r].i][1])]
           upn == rn.diff.added[rn.i][1]
           new_slot == rn.diff.added[rn.i][2]
       IN \E out \in GraphPost(remote, nextId, upn, BuildBody(rn.kind, new_slot)) :
            /\ remote' = out[3]
            /\ nextId' = IF CreateOk(out[1]) THEN nextId + 1 ELSE nextId
            /\ run' = [run EXCEPT ![r] =
                   Advance(AfterCreate(rn, "added", "create", upn, new_slot, out),
                           rn.diff.added, "added", "merge")]
    /\ UNCHANGED <<files, now, call, ret>>

\* main(): merge_synced_events and save_synced_state after apply_*_diff
MergeSave(r) ==
    /\ run[r].pc = "merge"
    /\ LET rn == run[r]
           new_state == merge_synced_events(rn.old_events, rn.diff,
                                            rn.synced_events)
       IN /\ files' = save_synced_state(files, now, StateAgenda(rn.kind),
                                        SyncType(rn.kind), new_state)
          /\ run' = [run EXCEPT ![r] = [rn EXCEPT !.pc = "done", !.last = "diff"]]
    /\ now' = (now + 1) % ClockTicks
    /\ UNCHANGED <<remote, nextId, call, ret>>

(***************************************************************************)
(* The first run (no state file): full clear + create.                     *)
(***************************************************************************)
SubjectMatches(kind, body) ==
    IF kind = "method" THEN body.subject = CALENDAR_EVENT_SUBJECT
    ELSE body.subject[1] = PRIVATE_EVENT_PREFIX

\* all_synced_events replaced by the current owner's events
NextOwnerOnlyCurrent(rn) ==
    LET upn == Matched(rn.new_schedule)[rn.oi]
        kept == IF rn.created_events # <<>>
                THEN [rn EXCEPT !.synced_events = (upn :> rn.created_events)]
                ELSE rn
    IN IF rn.oi < Len(Matched(rn.new_schedule))
       THEN [kept EXCEPT !.pc = "clear", !.oi = rn.oi + 1]
       ELSE [kept EXCEPT !.pc = "first_save"]

\* after one owner of "for display_name, upn, slots in matched"
NextOwner(rn) ==
    LET upn == Matched(rn.new_schedule)[rn.oi]
        kept == IF rn.created_events # <<>>
                THEN [rn EXCEPT !.synced_events =
                         [u \in DOMAIN @ \cup {upn} |->
                             IF u = upn THEN rn.created_events ELSE @[u]]]
                ELSE rn
    IN IF rn.oi < Len(Matched(rn.new_schedule))
       THEN [kept EXCEPT !.pc = "clear", !.oi = rn.oi + 1]
       ELSE [kept EXCEPT !.pc = "first_save"]

\* clear_teaching_events / clear_private_events for one owner: the listed
\* events whose delete answers 204 are gone (none when the listing fails)
FirstClear(r) ==
    /\ run[r].pc = "clear"
    /\ LET rn == run[r]
           upn == Matched(rn.new_schedule)[rn.oi]
           listed == {e \in remote : e.upn = upn /\ SubjectMatches(rn.kind, e.body)}
           begun == [rn EXCEPT !.created_events = <<>>, !.errors = <<>>, !.i = 1]
       IN \E gone \in SUBSET listed :
            /\ remote' = remote \ gone
            /\ run' = [run EXCEPT ![r] =
                   IF rn.new_schedule[upn] = <<>> THEN NextOwner(begun)
                   ELSE [begun EXCEPT !.pc = "create"]]
    /\ UNCHANGED <<files, nextId, now, call, ret>>

\* create_teaching_events / create_private_events: one slot
FirstCreate(r) ==
    /\ run[r].pc = "create"
    /\ LET rn == run[r]
           upn == Matched(rn.new_schedule)[rn.oi]
           slots == rn.new_schedule[upn]
           slot == slots[rn.i]
           body == BuildBody(rn.kind, slot)
       IN \E out \in GraphPost(remote, nextId, upn, body) :
            LET logged == [rn EXCEPT !.calls =
                    Append(@, CreateCall("first", upn, slot, out[1], out[2]))]
                after ==
                    IF CreateOk(out[1])
                    THEN [logged EXCEPT
                             !.created = @ + 1,
                             !.created_events =
                                 Append(@, SyncedEvent(rn.kind, out[2], slot, body))]
                    ELSE [logged EXCEPT
                             !.failed = @ + 1,
                             !.errors = Append(@,
                                 <<"create", SlotLabel(rn.kind, slot), out[1]>>)]
            IN /\ remote' = out[3]
               /\ nextId' = IF CreateOk(out[1]) THEN nextId + 1 ELSE nextId
               /\ run' = [run EXCEPT ![r] =
                      IF rn.i < Len(slots) THEN [after EXCEPT !.i = rn.i + 1]
                      ELSE NextOwner(after)]
    /\ UNCHANGED <<files, now, call, ret>>

FirstSave(r) ==
    /\ run[r].pc = "first_save"
    /\ LET rn == run[r]
       IN /\ files' = save_synced_state(files, now, StateAgenda(rn.kind),
                                        SyncType(rn.kind), rn.synced_events)
          /\ run' = [run EXCEPT ![r] = [rn EXCEPT !.pc = "done", !.last = "first"]]
    /\ now' = (now + 1) % ClockTicks
    /\ UNCHANGED <<remote, nextId, call, ret>>

\* main() returns: its locals are gone
Finish(r) ==
    /\ run[r].pc = "done"
    /\ run' = [run EXCEPT ![r] = IdleRun(run[r].kind)]
    /\ UNCHANGED <<files, remote, nextId, now, call, ret>>

(***************************************************************************)
(* Serialized runs of one scope: runner 1 alone.                           *)
(***************************************************************************)
NoCall == [fn |-> "none"]

Init ==
    /\ files = [a \in Agendas |-> NoFile]
    /\ remote = {}
    /\ nextId = 1
    /\ now = 0
    /\ \E kind \in {"method", "vip"} : run = [r \in Runners |-> IdleRun(kind)]
    /\ call = NoCall
    /\ ret = NoCall

Step(r) ==
    \/ Start(r)
    \/ DeleteRemoved(r)
    \/ ChangedDelete(r)
    \/ ChangedCreate(r)
    \/ AddedCreate(r)
    \/ MergeSave(r)
    \/ FirstClear(r)
    \/ FirstCreate(r)
    \/ FirstSave(r)
    \/ Finish(r)

Next == Step(1)

Spec == Init /\ [][Next]_vars

(***************************************************************************)
(* The diff engine on its own: compute_method_diff and compute_vip_diff    *)
(* called on drawn inputs.  An old snapshot holds what the create paths    *)
(* store (MethodSyncedEvent, VipSyncedEvent), each event under its own id; *)
(* lists may repeat an identity key.                                       *)
(***************************************************************************)
DiffMethodSlots ==
    [day : {"Monday"}, start : {"09:00", "09:01"}, end : {"10:00", "11:00"}]

DiffVipSlots ==
    [date : {"2026-01-05"}, start : {"09:00"}, end : {"10:00"},
     type : {"VAD"}, name : {"n"}, online : {"True", "False"}]
    \cup [date : {"2026-01-05"}, start : {"09:00"}, end : {"10:00"},
          name : {"n"}, online : {"True", "False"}]
    \cup [date : {"2026-01-05"}, start : {"09:00"}, end : {"10:00"},
          type : {"VAD"}, name : {"n"}]
    \cup [date : {"2026-01-05"}, start : {"09:00"}, end : {"10:00"},
          name : {"n"}]
    \cup [date : {"2026-01-05"}, start : {"09:00"}, end : {"11:00"},
          type : {"VAD"}, name : {"n"}, online : {"True"}]

\* the snapshot list a create path stores for `slots`, ids from `base` + 1 on
StoredList(kind, slots, base) ==
    [i \in 1..Len(slots) |->
        SyncedEvent(kind, base + i, slots[i], BuildBody(kind, slots[i]))]

DiffMethodNew ==
    LET l1 == SeqsUpTo(DiffMethodSlots, MaxLen)
        l2 == {<<s>> : s \in {t \in DiffMethodSlots : t["start"] = "09:00"}}
    IN {<<>>} \cup {("u1" :> a) : a \in l1} \cup {("u2" :> b) : b \in l2}
       \cup {("u1" :> a) @@ ("u2" :> b) : a \in l1, b \in l2}

DiffVipNew ==
    {<<>>} \cup {("u1" :> a) : a \in SeqsUpTo(DiffVipSlots, MaxLen)}

StoredMap(kind, new) ==
    [u \in DOMAIN new |->
        StoredList(kind, new[u], IF u = "u1" THEN 0 ELSE MaxLen)]

DiffMethodOld == {StoredMap("method", n) : n \in DiffMethodNew}

DiffVipOld == {StoredMap("vip", n) : n \in DiffVipNew}

DiffInit ==
    /\ files = [a \in Agendas |-> NoFile]
    /\ remote = {}
    /\ nextId = 1
    /\ now = 0
    /\ run = [r \in Runners |-> IdleRun("method")]
    /\ ret = NoCall
    /\ \/ \E o \in DiffMethodOld, n \in DiffMethodNew :
            call = [fn |-> "compute_method_diff", old_events |-> o,
                    new_schedule |-> n]
       \/ \E o \in DiffVipOld, n \in DiffVipNew :
            call = [fn |-> "compute_vip_diff", old_events |-> o,
                    new_schedule |-> n]

CallComputeMethodDiff ==
    /\ call.fn = "compute_method_diff"
    /\ ret = NoCall
    /\ ret' = [fn |-> call.fn,
               value |-> compute_method_diff(call.old_events, call.new_schedule)]
    /\ UNCHANGED <<files, remote, nextId, now, run, call>>

CallComputeVipDiff ==
    /\ call.fn = "compute_vip_diff"
    /\ ret = NoCall
    /\ ret' = [fn |-> call.fn,
               value |-> compute_vip_diff(call.old_events, call.new_schedule)]
    /\ UNCHANGED <<files, remote, nextId, now, run, call>>

DiffNext == CallComputeMethodDiff \/ CallComputeVipDiff

DiffSpec == DiffInit /\ [][DiffNext]_vars

(***************************************************************************)
(* Properties of the diff engine (checked under DiffSpec).                 *)
(***************************************************************************)
DiffKind == IF call.fn = "compute_method_diff" THEN "method" ELSE "vip"

DiffReturned == ret # NoCall

\* the identity key of the data model: (owner, weekday, start) for a
\* recurring slot, (owner, date, start, activity type) for a dated one
ActivityType(x) == IF "type" \in DOMAIN x THEN x["type"] ELSE ""

IdentityKey(kind, upn, x) ==
    IF kind = "method" THEN <<upn, x["day"], x["start"]>>
    ELSE <<upn, x["date"], x["start"], ActivityType(x)>>

OnlineFlag(x) == IF "online" \in DOMAIN x THEN x["online"] ELSE None

\* a mutable field differs: end (recurring), end or online flag (dated)
MutableDiffers(kind, old_ev, new_slot) ==
    IF kind = "method" THEN old_ev["end"] # new_slot["end"]
    ELSE old_ev["end"] # new_slot["end"]
         \/ OnlineFlag(old_ev) # OnlineFlag(new_slot)

InputKeys(kind, m) ==
    {IdentityKey(kind, u, m[u][i]) : <<u, i>> \in
        UNION {{<<v, j>> : j \in 1..Len(m[v])} : v \in DOMAIN m}}

\* the entries <<upn, x>> of mapping m whose identity key is k
EntriesWith(kind, m, k) ==
    {<<u, m[u][i]>> : <<u, i>> \in
        {<<v, j>> \in UNION {{<<w, l>> : l \in 1..Len(m[w])} : w \in DOMAIN m} :
            IdentityKey(kind, v, m[v][j]) = k}}

\* the last entry of mapping m with identity key k, in input order
LastWith(kind, m, k) ==
    LET u == k[1]
        j == CHOOSE j \in 1..Len(m[u]) :
                 /\ IdentityKey(kind, u, m[u][j]) = k
                 /\ \A l \in (j + 1)..Len(m[u]) :
                        IdentityKey(kind, u, m[u][l]) # k
    IN m[u][j]

AddedKeys(kind, d) ==
    {IdentityKey(kind, d.added[i][1], d.added[i][2]) : i \in 1..Len(d.added)}

RemovedKeys(kind, d) ==
    {IdentityKey(kind, d.removed[i][1], d.removed[i][2]) :
        i \in 1..Len(d.removed)}

ChangedKeys(kind, d) ==
    {IdentityKey(kind, d.changed[i][1], d.changed[i][2]) :
        i \in 1..Len(d.changed)}

\* C7: every (owner, identity key) of either input is classified exactly
\* once: the key sets of added, removed and changed are pairwise disjoint,
\* no list repeats a key, and len(added) + len(removed) + len(changed) +
\* unchanged_count is the number of distinct keys of both inputs.
C7_PartitionComplete ==
    DiffReturned =>
        LET d == ret.value
            A == AddedKeys(DiffKind, d)
            R == RemovedKeys(DiffKind, d)
            C == ChangedKeys(DiffKind, d)
            U == InputKeys(DiffKind, call.old_events)
                 \cup InputKeys(DiffKind, call.new_schedule)
        IN /\ A \cap R = {} /\ A \cap C = {} /\ R \cap C = {}
           /\ Cardinality(A) = Len(d.added)
           /\ Cardinality(R) = Len(d.removed)
           /\ Cardinality(C) = Len(d.changed)
           /\ A \cup R \cup C \subseteq U
           /\ d.unchanged_count >= 0
           /\ Len(d.added) + Len(d.removed) + Len(d.changed)
              + d.unchanged_count = Cardinality(U)

C7_Witness ==
    /\ DiffReturned
    /\ Len(ret.value.added) > 0
    /\ Len(ret.value.removed) > 0
    /\ Len(ret.value.changed) > 0

\* C8: a key present in both inputs is reported as changed, carrying the
\* old event and the new slot, exactly when a mutable field differs (end;
\* for dated slots end or the online flag), and is counted in
\* unchanged_count otherwise; subject and external id play no part.
C8_ChangedIffMutableDiffers ==
    DiffReturned =>
        LET d == ret.value
            kind == DiffKind
            both == InputKeys(kind, call.old_events)
                    \cap InputKeys(kind, call.new_schedule)
            old(k) == LastWith(kind, call.old_events, k)
            new(k) == LastWith(kind, call.new_schedule, k)
        IN /\ \A k \in both :
                 (\E i \in 1..Len(d.changed) :
                      d.changed[i] = <<k[1], old(k), new(k)>>)
                 <=> MutableDiffers(kind, old(k), new(k))
           /\ \A i \in 1..Len(d.changed) :
                 LET k == IdentityKey(kind, d.changed[i][1], d.changed[i][2])
                 IN k \in both /\ d.changed[i] = <<k[1], old(k), new(k)>>
           /\ d.unchanged_count =
                 Cardinality({k \in both :
                                 ~MutableDiffers(kind, old(k), new(k))})

C8_Witness ==
    /\ DiffReturned
    /\ DiffKind = "vip"
    /\ ret.value.unchanged_count > 0
    /\ \E i \in 1..Len(ret.value.changed) :
         /\ ret.value.changed[i][2]["end"] = ret.value.changed[i][3]["end"]
         /\ ret.value.changed[i][2]["subject"][4] = " (Online)"

\* C9 as stated: removed holds exactly the old events whose key is absent
\* from the desired schedule and added exactly the desired slots whose key
\* is absent from the old snapshot, keys matched exactly.
C9_AsStated ==
    DiffReturned =>
        LET d == ret.value
            kind == DiffKind
            oldKeys == InputKeys(kind, call.old_events)
            newKeys == InputKeys(kind, call.new_schedule)
        IN /\ Range(d.removed) =
                 UNION {EntriesWith(kind, call.old_events, k) :
                           k \in oldKeys \ newKeys}
           /\ Range(d.added) =
                 UNION {EntriesWith(kind, call.new_schedule, k) :
                           k \in newKeys \ oldKeys}

\* C9 (amended): for every (owner, identity key) of the old snapshot that is
\* absent from the desired schedule, removed holds exactly the last old
\* event with that key, and for every key of the desired schedule absent
\* from the old snapshot added holds exactly the last desired slot with
\* that key; keys match exactly, so a changed entry always pairs an old
\* event and a slot of one key and a shifted start is a remove plus an add.
C9_RemovedAddedByExactKey ==
    DiffReturned =>
        LET d == ret.value
            kind == DiffKind
            oldKeys == InputKeys(kind, call.old_events)
            newKeys == InputKeys(kind, call.new_schedule)
        IN /\ Range(d.removed) =
                 {<<k[1], LastWith(kind, call.old_events, k)>> :
                     k \in oldKeys \ newKeys}
           /\ Len(d.removed) = Cardinality(oldKeys \ newKeys)
           /\ Range(d.added) =
                 {<<k[1], LastWith(kind, call.new_schedule, k)>> :
                     k \in newKeys \ oldKeys}
           /\ Len(d.added) = Cardinality(newKeys \ oldKeys)
           /\ \A i \in 1..Len(d.changed) :
                 IdentityKey(kind, d.changed[i][1], d.changed[i][2])
                 = IdentityKey(kind, d.changed[i][1], d.changed[i][3])

\* one old event and one desired slot of the same owner and day whose start
\* times differ: one removed entry, one added entry, nothing changed
C9_Witness ==
    /\ DiffReturned
    /\ DiffKind = "method"
    /\ Len(ret.value.removed) = 1
    /\ Len(ret.value.added) = 1
    /\ Len(ret.value.changed) = 0
    /\ ret.value.removed[1][1] = ret.value.added[1][1]
    /\ ret.value.removed[1][2]["day"] = ret.value.added[1][2]["day"]
    /\ ret.value.removed[1][2]["start"] # ret.value.added[1][2]["start"]

\* the desired schedule has the owners, identity keys and mutable fields of
\* the old snapshot, entry by entry
SameAsOld(kind, old_events, new_schedule) ==
    /\ DOMAIN old_events = DOMAIN new_schedule
    /\ \A u \in DOMAIN old_events :
         /\ Len(old_events[u]) = Len(new_schedule[u])
         /\ \A i \in 1..Len(old_events[u]) :
              /\ IdentityKey(kind, u, old_events[u][i])
                 = IdentityKey(kind, u, new_schedule[u][i])
              /\ ~MutableDiffers(kind, old_events[u][i], new_schedule[u][i])

TotalEvents(m) == Len(Flatten(m))

\* C10 as stated: when the desired schedule equals the old snapshot the
\* diff is empty and unchanged_count is the number of events of the old
\* snapshot.
C10_AsStated ==
    (DiffReturned /\ SameAsOld(DiffKind, call.old_events, call.new_schedule))
    => /\ ret.value.added = <<>>
       /\ ret.value.removed = <<>>
       /\ ret.value.changed = <<>>
       /\ ret.value.unchanged_count = TotalEvents(call.old_events)

\* C10 (amended): when the desired schedule equals the old snapshot the
\* diff has empty added, removed and changed lists and unchanged_count is
\* the number of distinct (owner, identity key) pairs of the old snapshot
\* (its number of events when no owner's list repeats a key).
C10_NoOpStable ==
    (DiffReturned /\ SameAsOld(DiffKind, call.old_events, call.new_schedule))
    => /\ ret.value.added = <<>>
       /\ ret.value.removed = <<>>
       /\ ret.value.changed = <<>>
       /\ ret.value.unchanged_count
          = Cardinality(InputKeys(DiffKind, call.old_events))
       /\ (Cardinality(InputKeys(DiffKind, call.old_events))
           = TotalEvents(call.old_events)
           => ret.value.unchanged_count = TotalEvents(call.old_events))

C10_Witness ==
    /\ DiffReturned
    /\ SameAsOld(DiffKind, call.old_events, call.new_schedule)
    /\ ret.value.unchanged_count >= 2
    /\ ret.value.unchanged_count = TotalEvents(call.old_events)

(***************************************************************************)
(* Properties of the sync runs of one scope (checked under Spec).          *)
(***************************************************************************)
Runner == run[1]

RunAgenda == StateAgenda(Runner.kind)

\* the events mapping of the persisted snapshot ({} while there is no file)
SnapshotEvents ==
    IF files[RunAgenda] = NoFile THEN <<>> ELSE files[RunAgenda].events

IdsOf(events) ==
    {Get(e[2], "outlook_event_id", NoId) : e \in Range(Flatten(events))}

SnapshotIds == IdsOf(SnapshotEvents)

\* the (owner, identity key) of a live remote event, read off its body
RemoteKey(e) ==
    IF Runner.kind = "method" THEN <<e.upn, e.body.day, e.body.start>>
    ELSE <<e.upn, e.body.date, e.body.start, e.body.subject[2]>>

RunDone == Runner.pc = "done"

DiffRunDone == Runner.pc = "done" /\ Runner.last = "diff"

\* the ids whose delete call of this run answered / did not answer 204
DeletedIds ==
    {Runner.calls[j].id : j \in {i \in 1..Len(Runner.calls) :
        Runner.calls[i].op = "delete" /\ Runner.calls[i].status = 204}}

FailedDeleteIds ==
    {Runner.calls[j].id : j \in {i \in 1..Len(Runner.calls) :
        Runner.calls[i].op = "delete" /\ Runner.calls[i].status # 204}}

\* the <<upn, old event>> entries of diff.removed and of diff.changed
OldSide(diff) ==
    Range(diff.removed)
    \cup {<<diff.changed[i][1], diff.changed[i][2]>> : i \in 1..Len(diff.changed)}

\* C1: the remote store never holds two live sync-created events for the
\* same owner and identity key.
C1_NoDuplicateLiveEvents ==
    \A e1, e2 \in remote : RemoteKey(e1) = RemoteKey(e2) => e1 = e2

\* C2: after every completed run, every live remote event created by a sync
\* run is recorded by its external id in the persisted snapshot.
C2_NoOrphanedEvent ==
    RunDone => \A e \in remote : e.id \in SnapshotIds

\* C3: apply_method_diff / apply_vip_diff call create for a changed entry
\* only right after the delete of the entry's old external id answered 204
\* (or when the old event has no external id); once that delete has failed,
\* no create is ever called for the entry.
C3_NoCreateAfterFailedDelete ==
    LET c == Runner.calls
        d == Runner.diff
        oldId(i) == Get(d.changed[i][2], "outlook_event_id", NoId)
    IN /\ \A j \in 1..Len(c) :
             (c[j].op = "create" /\ c[j].phase = "changed") =>
                 \E i \in 1..Len(d.changed) :
                     /\ d.changed[i][1] = c[j].upn
                     /\ d.changed[i][3] = c[j].slot
                     /\ \/ oldId(i) = NoId
                        \/ /\ j > 1
                           /\ c[j - 1] = DeleteCall("changed", c[j].upn,
                                                    oldId(i), 204)
       /\ \A i \in 1..Len(d.changed) :
             (\E j \in 1..Len(c) :
                  /\ c[j].op = "delete" /\ c[j].phase = "changed"
                  /\ c[j].id = oldId(i) /\ c[j].status # 204)
             => ~\E j \in 1..Len(c) :
                    /\ c[j].op = "create" /\ c[j].phase = "changed"
                    /\ c[j].upn = d.changed[i][1]
                    /\ c[j].slot = d.changed[i][3]

\* a finished run in which the delete of a changed entry failed
C3_Witness ==
    /\ DiffRunDone
    /\ \E j \in 1..Len(Runner.calls) :
         /\ Runner.calls[j].op = "delete"
         /\ Runner.calls[j].phase = "changed"
         /\ Runner.calls[j].status # 204
    /\ Len(Runner.diff.changed) = 1
    /\ Runner.created = 0

\* C4: after apply_*_diff and merge_synced_events with the same diff, an old
\* event of diff.removed or diff.changed whose delete call failed is still
\* in the merged snapshot, and only ids whose delete call succeeded are
\* excluded from the old snapshot.
C4_FailedDeleteKept ==
    DiffRunDone =>
        /\ FailedDeleteIds \subseteq SnapshotIds
        /\ (IdsOf(Runner.old_events) \ SnapshotIds) \subseteq DeletedIds

\* C5 as stated: the merged snapshot holds no (owner, identity key) of
\* diff.removed or of the old side of diff.changed unless that entry's
\* delete failed, and every (owner, identity key) of applied_events once.
MergedEntriesWithKey(k) ==
    {<<u, i>> \in UNION {{<<v, j>> : j \in 1..Len(SnapshotEvents[v])} :
                             v \in DOMAIN SnapshotEvents} :
        IdentityKey(Runner.kind, u, SnapshotEvents[u][i]) = k}

AppliedOnce ==
    \A e \in Range(Flatten(Runner.synced_events)) :
        Cardinality(MergedEntriesWithKey(IdentityKey(Runner.kind, e[1], e[2])))
        = 1

C6_NoEmptyOwner ==
    DiffRunDone => \A u \in DOMAIN SnapshotEvents : SnapshotEvents[u] # <<>>

(***************************************************************************)
(* apply_*_diff, merge_synced_events and save_synced_state on their own: a *)
(* diff run of main() started from a drawn snapshot.  The snapshot holds   *)
(* what the create paths store; an event stored after a create whose       *)
(* answer carried no "id" has the empty id.  A listed event may no longer  *)
(* be live in the remote store.                                            *)
(***************************************************************************)
\* the events of a stored list that are live, as the remote store holds them
LiveOf(kind, upn, slots, evs) ==
    {[id |-> evs[i]["outlook_event_id"], upn |-> upn,
      body |-> BuildBody(kind, slots[i])] :
        i \in {j \in 1..Len(evs) : TruthyId(evs[j]["outlook_event_id"])}}

\* the stored list of `slots` with the events at `noid` stored without an id
StoredWithout(kind, upn, slots, noid) ==
    LET base == IF upn = "u1" THEN MaxIds ELSE MaxIds + MaxLen
    IN [i \in 1..Len(slots) |->
           IF i \in noid
           THEN SyncedEvent(kind, NoId, slots[i], BuildBody(kind, slots[i]))
           ELSE StoredList(kind, slots, base)[i]]

ApplyInit ==
    /\ nextId = 1
    /\ now = 0
    /\ call = NoCall
    /\ ret = NoCall
    /\ \E kind \in {"method", "vip"} :
         \E stored \in DesiredSchedules(kind), new_schedule \in DesiredSchedules(kind) :
           \E noid \in SUBSET (1..MaxLen) :
             LET old_events == [u \in DOMAIN stored |->
                                   StoredWithout(kind, u, stored[u], noid)]
                 live == UNION {LiveOf(kind, u, stored[u], old_events[u]) :
                                    u \in DOMAIN stored}
                 diff == ComputeDiffOf(kind, old_events, new_schedule)
                 begun == [IdleRun(kind) EXCEPT
                              !.new_schedule = new_schedule,
                              !.old_events = old_events, !.diff = diff, !.i = 1,
                              !.pc = PhaseFrom(diff, "removed")]
             IN /\ ~IsEmptyDiff(diff)
                /\ files = save_synced_state([a \in Agendas |-> NoFile], 0,
                               StateAgenda(kind), SyncType(kind), old_events)
                /\ run = [r \in Runners |-> IF r = 1 THEN begun ELSE IdleRun(kind)]
                /\ \E gone \in SUBSET live :
                     /\ Cardinality(gone) <= 1
                     /\ remote = live \ gone

ApplyNext ==
    \/ DeleteRemoved(1)
    \/ ChangedDelete(1)
    \/ ChangedCreate(1)
    \/ AddedCreate(1)
    \/ MergeSave(1)

ApplySpec == ApplyInit /\ [][ApplyNext]_vars

(***************************************************************************)
(* Properties of apply_*_diff and merge_synced_events (checked under       *)
(* ApplySpec).                                                             *)
(***************************************************************************)
ApplyPcs == {"removed", "changed", "changed_create", "added"}

\* apply_*_diff has returned
ApplyReturned == Runner.pc = "merge" \/ DiffRunDone

CallIndexes == 1..Len(Runner.calls)

OldId(old_ev) == Get(old_ev, "outlook_event_id", NoId)

CallSucceeded(c) ==
    IF c.op = "delete" THEN c.status = 204 ELSE c.status \in {200, 201}

DeleteCallsOf(phase, upn, id) ==
    {j \in CallIndexes :
        /\ Runner.calls[j].op = "delete" /\ Runner.calls[j].phase = phase
        /\ Runner.calls[j].upn = upn /\ Runner.calls[j].id = id}

CreateCallsOf(phase, upn, slot) ==
    {j \in CallIndexes :
        /\ Runner.calls[j].op = "create" /\ Runner.calls[j].phase = phase
        /\ Runner.calls[j].upn = upn /\ Runner.calls[j].slot = slot}

\* C11: apply_*_diff always goes on to its return, whatever the calls
\* answer, and on return it has attempted the delete of every removed entry
\* that has an external id, the delete of every changed entry that has one,
\* the create of every changed entry whose delete did not fail, and the
\* create of every added entry.
C11_FailureNeverAborts ==
    /\ Runner.pc \in ApplyPcs => ENABLED ApplyNext
    /\ ApplyReturned =>
         LET d == Runner.diff
         IN /\ \A i \in 1..Len(d.removed) :
                 OldId(d.removed[i][2]) # NoId =>
                     DeleteCallsOf("removed", d.removed[i][1],
                                   OldId(d.removed[i][2])) # {}
            /\ \A i \in 1..Len(d.changed) :
                 LET dels == DeleteCallsOf("changed", d.changed[i][1],
                                           OldId(d.changed[i][2]))
                 IN /\ OldId(d.changed[i][2]) # NoId => dels # {}
                    /\ (\A j \in dels : CallSucceeded(Runner.calls[j]))
                       => CreateCallsOf("changed", d.changed[i][1],
                                        d.changed[i][3]) # {}
            /\ \A i \in 1..Len(d.added) :
                 CreateCallsOf("added", d.added[i][1], d.added[i][2]) # {}

\* a call failed and later calls were still made
C11_Witness ==
    /\ ApplyReturned
    /\ \E j, k \in CallIndexes :
         /\ j < k
         /\ ~CallSucceeded(Runner.calls[j])
         /\ Runner.calls[k].phase # Runner.calls[j].phase

PhaseRank(phase) ==
    IF phase = "removed" THEN 1 ELSE IF phase = "changed" THEN 2 ELSE 3

\* the call log is in the order removed, changed, added, and the delete of a
\* changed entry comes before its create
CallsInOrder ==
    /\ \A j, k \in CallIndexes :
         j < k => PhaseRank(Runner.calls[j].phase)
                  <= PhaseRank(Runner.calls[k].phase)
    /\ \A i \in 1..Len(Runner.diff.changed) :
         \A j \in DeleteCallsOf("changed", Runner.diff.changed[i][1],
                                OldId(Runner.diff.changed[i][2])) :
             \A k \in CreateCallsOf("changed", Runner.diff.changed[i][1],
                                    Runner.diff.changed[i][3]) : j < k

\* a step makes at most one remote call, and the remote store changes only
\* by the call of that step, whose answer is logged with it
OneCallAtATime ==
    /\ Len(run'[1].calls) <= Len(run[1].calls) + 1
    /\ remote' # remote => Len(run'[1].calls) = Len(run[1].calls) + 1

\* C12: within one apply_*_diff call every delete of a removed entry
\* precedes every call for a changed entry, every call for a changed entry
\* precedes every create of an added entry, the delete of a changed entry
\* precedes its create, and the calls are issued one at a time.
C12_RemovedChangedAdded == [](CallsInOrder) /\ [][OneCallAtATime]_vars

\* a returned apply_*_diff that made calls in all three loops
C12_Witness ==
    /\ ApplyReturned
    /\ \A phase \in {"removed", "changed", "added"} :
         \E j \in CallIndexes : Runner.calls[j].phase = phase
    /\ \E j \in CallIndexes :
         Runner.calls[j].op = "create" /\ Runner.calls[j].phase = "changed"

\* C13: on return from apply_*_diff, failed is the number of calls that
\* answered a non-success status and the length of errors; deleted is the
\* number of delete calls that answered 204; created is the number of create
\* calls that answered 200/201 and the number of events in synced_events;
\* created + deleted + failed is the number of calls made.
C13_CountersMatchCalls ==
    ApplyReturned =>
        LET c == Runner.calls
            failedCalls == {j \in CallIndexes : ~CallSucceeded(c[j])}
            okDeletes == {j \in CallIndexes :
                             c[j].op = "delete" /\ c[j].status = 204}
            okCreates == {j \in CallIndexes :
                             c[j].op = "create" /\ c[j].status \in {200, 201}}
        IN /\ Runner.failed = Cardinality(failedCalls)
           /\ Runner.failed = Len(Runner.errors)
           /\ Runner.deleted = Cardinality(okDeletes)
           /\ Runner.created = Cardinality(okCreates)
           /\ Runner.created = TotalEvents(Runner.synced_events)
           /\ Runner.created + Runner.deleted + Runner.failed = Len(c)

\* a returned apply_*_diff with a created, a deleted and a failed call, the
\* failed one a create
C13_Witness ==
    /\ ApplyReturned
    /\ Runner.created >= 1
    /\ Runner.deleted >= 1
    /\ \E j \in CallIndexes :
         Runner.calls[j].op = "create" /\ ~CallSucceeded(Runner.calls[j])

\* the external id, identity fields and mutable fields of a stored event
EventFields(kind, ev) ==
    IF kind = "method"
    THEN <<Get(ev, "outlook_event_id", None), Get(ev, "day", None),
           Get(ev, "start", None), Get(ev, "end", None)>>
    ELSE <<Get(ev, "outlook_event_id", None), Get(ev, "date", None),
           Get(ev, "start", None), Get(ev, "type", None),
           Get(ev, "end", None), Get(ev, "online", None)>>

\* the id a create call answered with and the same fields of its slot
CreatedFields(kind, c) ==
    IF kind = "method"
    THEN <<c.id, c.slot["day"], c.slot["start"], c.slot["end"]>>
    ELSE <<c.id, c.slot["date"], c.slot["start"], ActivityType(c.slot),
           c.slot["end"], Get(c.slot, "online", "False")>>

\* the successful create calls for `upn`, in call order
CreatedFor(upn) ==
    SelectSeq(Runner.calls,
              LAMBDA c : c.op = "create" /\ c.upn = upn /\ CallSucceeded(c))

FieldsOfEvents(kind, evs) == [i \in 1..Len(evs) |-> EventFields(kind, evs[i])]

FieldsOfCalls(kind, cs) == [i \in 1..Len(cs) |-> CreatedFields(kind, cs[i])]

\* C14: the synced_events returned by apply_*_diff holds under each owner
\* one event per successful create call for that owner (of an added or a
\* changed entry) and nothing else; the event carries the id the call
\* answered with and the identity and mutable fields of the new slot.
C14_SyncedEventsAreCreates ==
    ApplyReturned =>
        \A u \in Owners \cup DOMAIN Runner.synced_events :
            FieldsOfEvents(Runner.kind, Get(Runner.synced_events, u, <<>>))
            = FieldsOfCalls(Runner.kind, CreatedFor(u))

\* a changed entry re-created with its new end, and a create that failed
C14_Witness ==
    /\ ApplyReturned
    /\ \E j \in CallIndexes :
         /\ Runner.calls[j].op = "create" /\ Runner.calls[j].phase = "changed"
         /\ CallSucceeded(Runner.calls[j])
    /\ \E j \in CallIndexes :
         Runner.calls[j].op = "create" /\ ~CallSucceeded(Runner.calls[j])

\* no delete call is ever made without an external id
NoDeleteWithoutId ==
    \A j \in CallIndexes :
        Runner.calls[j].op = "delete" => Runner.calls[j].id # NoId

\* the iteration over an entry whose old event has no external id: a removed
\* entry is passed over; a changed entry goes to its create call, which is
\* the next call made
StepWithoutId ==
    LET rn == run[1]
        quiet == /\ run'[1].calls = rn.calls
                 /\ run'[1].failed = rn.failed
                 /\ run'[1].errors = rn.errors
                 /\ run'[1].deleted = rn.deleted
                 /\ remote' = remote
    IN /\ (rn.pc = "removed" /\ OldId(rn.diff.removed[rn.i][2]) = NoId)
          => quiet
       /\ (rn.pc = "changed" /\ OldId(rn.diff.changed[rn.i][2]) = NoId)
          => quiet /\ run'[1].pc = "changed_create" /\ run'[1].i = rn.i
       /\ rn.pc = "changed_create"
          => /\ Len(run'[1].calls) = Len(rn.calls) + 1
             /\ LET c == run'[1].calls[Len(rn.calls) + 1]
                IN /\ c.op = "create"
                   /\ c.upn = rn.diff.changed[rn.i][1]
                   /\ c.slot = rn.diff.changed[rn.i][3]

\* C15: a removed entry whose old event has no (or an empty) external id
\* causes no delete call and changes neither failed nor errors; a changed
\* entry whose old event has none causes no delete call and goes straight
\* to its create call.
C15_NoIdNoDelete == [](NoDeleteWithoutId) /\ [][StepWithoutId]_vars

\* a returned apply_*_diff over a removed and a changed entry without id
C15_Witness ==
    /\ ApplyReturned
    /\ \E i \in 1..Len(Runner.diff.removed) :
         OldId(Runner.diff.removed[i][2]) = NoId
    /\ \E i \in 1..Len(Runner.diff.changed) :
         /\ OldId(Runner.diff.changed[i][2]) = NoId
         /\ CreateCallsOf("changed", Runner.diff.changed[i][1],
                          Runner.diff.changed[i][3]) # {}
    /\ Runner.failed = 0

\* the external ids of diff.removed and of the old side of diff.changed (an
\* old event without external id contributes none)
ExclusionSet(diff) == {OldId(e[2]) : e \in OldSide(diff)} \ {NoId}

KeptOf(old_events, diff, u) ==
    SelectSeq(Get(old_events, u, <<>>),
              LAMBDA ev : OldId(ev) \notin ExclusionSet(diff))

\* what main() saves is, per owner, the old events outside the exclusion
\* set, unmodified and in their order, followed by the owner's applied events
MergedAsSpecified ==
    DiffRunDone =>
        /\ DOMAIN SnapshotEvents
           \subseteq DOMAIN Runner.old_events \cup DOMAIN Runner.synced_events
        /\ \A u \in Owners :
             Get(SnapshotEvents, u, <<>>)
             = KeptOf(Runner.old_events, Runner.diff, u)
               \o Get(Runner.synced_events, u, <<>>)

\* the merge leaves its arguments as they were
MergeInputsKept ==
    run[1].pc = "merge" =>
        /\ run'[1].old_events = run[1].old_events
        /\ run'[1].diff = run[1].diff
        /\ run'[1].synced_events = run[1].synced_events

\* C16: merge_synced_events(old, diff, applied) is, per owner, the old
\* events whose external id is not an external id of diff.removed or of the
\* old side of diff.changed, in their order and unmodified, followed by that
\* owner's applied events; the input mappings are not mutated.
C16_MergeIsKeptThenApplied == [](MergedAsSpecified) /\ [][MergeInputsKept]_vars

\* a merge that kept an old event, dropped another and appended a new one,
\* all of one owner
C16_Witness ==
    /\ DiffRunDone
    /\ ExclusionSet(Runner.diff) # {}
    /\ \E u \in DOMAIN Runner.synced_events :
         /\ Runner.synced_events[u] # <<>>
         /\ KeptOf(Runner.old_events, Runner.diff, u) # <<>>
         /\ Len(KeptOf(Runner.old_events, Runner.diff, u))
            < Len(Runner.old_events[u])

(***************************************************************************)
(* Runs that stop before save_synced_state.  main() catches nothing around *)
(* apply_*_diff, merge_synced_events and save_synced_state: when the       *)
(* process stops there, the state file keeps its content and the schedule  *)
(* files are what they were, so the next run diffs the old snapshot        *)
(* against the same desired schedule.                                      *)
(***************************************************************************)
\* a diff run stops after at least one remote call and before the save
Crash(r) ==
    /\ run[r].pc \in {"removed", "changed", "changed_create", "added", "merge"}
    /\ run[r].calls # <<>>
    /\ run' = [run EXCEPT ![r] =
                  [IdleRun(run[r].kind) EXCEPT
                      !.pc = "crashed",
                      !.new_schedule = run[r].new_schedule]]
    /\ UNCHANGED <<files, remote, nextId, now, call, ret>>

\* main() run again with the same schedule files (the run is marked
\* "retried")
Retry(r) ==
    /\ run[r].pc = "crashed"
    /\ LET kind == run[r].kind
           new_schedule == run[r].new_schedule
           last_synced == load_last_synced(files, StateAgenda(kind))
           old_events == last_synced.events
           diff == ComputeDiffOf(kind, old_events, new_schedule)
           fresh == [retried |-> "True"] @@
                    [IdleRun(kind) EXCEPT !.new_schedule = new_schedule]
       IN run' = [run EXCEPT ![r] =
                     [fresh EXCEPT !.old_events = old_events, !.diff = diff,
                                   !.i = 1,
                                   !.last = IF IsEmptyDiff(diff)
                                            THEN "noop" ELSE "none",
                                   !.pc = IF IsEmptyDiff(diff) THEN "done"
                                          ELSE PhaseFrom(diff, "removed")]]
    /\ UNCHANGED <<files, remote, nextId, now, call, ret>>

CrashNext == Step(1) \/ Crash(1) \/ Retry(1)

CrashSpec == Init /\ [][CrashNext]_vars

\* C17: when a run made some of its remote calls and stopped before
\* save_synced_state, the next run against the old snapshot and the same
\* desired schedule, once completed, leaves no two live remote events for
\* one (owner, identity key) and has saved a snapshot that lists every live
\* sync-created remote event.
C17_RetryAfterCrash ==
    (RunDone /\ "retried" \in DOMAIN Runner) =>
        /\ \A e1, e2 \in remote : RemoteKey(e1) = RemoteKey(e2) => e1 = e2
        /\ \A e \in remote : e.id \in SnapshotIds

(***************************************************************************)
(* Properties of the first run and of the snapshot store.                  *)
(***************************************************************************)
FirstRunDone == Runner.pc = "done" /\ Runner.last = "first"

\* C18: on the first-run path one create is attempted for every desired
\* slot of every matched owner, in order and without a diff, and the saved
\* snapshot holds exactly the ids the successful creates answered with, each
\* under its owner with its slot's fields (so N ids for N slots when every
\* create succeeds, and nothing for a failed create).
C18_FirstRunCreatesAll ==
    FirstRunDone =>
        LET wanted == Flatten(Runner.new_schedule)
        IN /\ Runner.diff = EmptyDiff
           /\ Len(Runner.calls) = Len(wanted)
           /\ \A j \in CallIndexes :
                /\ Runner.calls[j].op = "create"
                /\ Runner.calls[j].upn = wanted[j][1]
                /\ Runner.calls[j].slot = wanted[j][2]
           /\ \A u \in Owners \cup DOMAIN SnapshotEvents :
                FieldsOfEvents(Runner.kind, Get(SnapshotEvents, u, <<>>))
                = FieldsOfCalls(Runner.kind, CreatedFor(u))

\* a first run over two slots, one created and one failed
C18_Witness ==
    /\ FirstRunDone
    /\ Len(Runner.calls) = 2
    /\ Runner.created = 1
    /\ Runner.failed = 1
    /\ SnapshotIds # {}

\* the first-run path is taken only while the scope has no state file, and
\* the diff path only when it has one
PathFollowsFile ==
    /\ Runner.pc \in {"clear", "create", "first_save"}
       => files[RunAgenda] = NoFile
    /\ (Runner.pc \in ApplyPcs \cup {"merge"} \/ Runner.last \in {"diff", "noop"})
       => files[RunAgenda] # NoFile

\* a state file, once written, is there for good
FileStays == \A a \in Agendas : files[a] # NoFile => files'[a] # NoFile

\* C19: once save_synced_state has succeeded for a scope key,
\* load_last_synced never again returns None for it: the first-run path is
\* taken at most until the first save, every later run takes the diff path.
C19_FirstRunOnlyOnce == [](PathFollowsFile) /\ [][FileStays]_vars

\* a later run took the diff path although the saved snapshot has no events
C19_Witness ==
    /\ RunDone
    /\ Runner.last \in {"diff", "noop"}
    /\ Runner.old_events = <<>>
    /\ files[RunAgenda] # NoFile

(***************************************************************************)
(* The snapshot store on its own: save_synced_state and load_last_synced   *)
(* called with drawn arguments, for either scope key and in any order.     *)
(***************************************************************************)
StoreEvents ==
    {StoredMap("method", n) :
        n \in {m \in MethodDesired : \A u \in DOMAIN m : Len(m[u]) = 1}}

StoreInit ==
    /\ files = [a \in Agendas |-> NoFile]
    /\ remote = {}
    /\ nextId = 1
    /\ now = 0
    /\ run = [r \in Runners |-> IdleRun("method")]
    /\ call = NoCall
    /\ ret = NoCall

\* save_synced_state(agenda, sync_type, events); `before` is what the file
\* held when the call was made
CallSave ==
    /\ \E agenda \in Agendas, sync_type \in {"method", "vip"},
          events \in StoreEvents :
         /\ files' = save_synced_state(files, now, agenda, sync_type, events)
         /\ call' = [fn |-> "save_synced_state", agenda |-> agenda,
                     sync_type |-> sync_type, events |-> events,
                     before |-> files[agenda]]
         /\ ret' = [fn |-> "save_synced_state", value |-> agenda]
    /\ now' = (now + 1) % ClockTicks
    /\ UNCHANGED <<remote, nextId, run>>

CallLoad ==
    /\ \E agenda \in Agendas :
         /\ call' = [fn |-> "load_last_synced", agenda |-> agenda]
         /\ ret' = [fn |-> "load_last_synced",
                    value |-> load_last_synced(files, agenda)]
    /\ UNCHANGED <<files, remote, nextId, now, run>>

StoreNext == CallSave \/ CallLoad

StoreSpec == StoreInit /\ [][StoreNext]_vars

\* right after save_synced_state(A, kind, E) a load of A gives agenda A,
\* sync_type kind, events E and nothing else but the time stamp
SavedIsLoaded ==
    call.fn = "save_synced_state" =>
        LET s == load_last_synced(files, call.agenda)
        IN /\ s # NoFile
           /\ DOMAIN s = {"synced_at", "agenda", "sync_type", "events"}
           /\ s.agenda = call.agenda
           /\ s.sync_type = call.sync_type
           /\ s.events = call.events

\* a load answers None exactly for a key that has no file
LoadOfNoFile ==
    call.fn = "load_last_synced" =>
        (ret.value = NoFile <=> files[call.agenda] = NoFile)

\* a step changes the file of the saved key only, and a file appears only
\* by a save for its key
OnlySavedKeyChanges ==
    \A a \in Agendas :
        files'[a] # files[a] =>
            call'.fn = "save_synced_state" /\ call'.agenda = a

\* C20: after save_synced_state(A, kind, E), load_last_synced(A) returns a
\* snapshot with agenda A, sync_type kind and events E whatever A held
\* before; the snapshot of every other key is unchanged; load_last_synced
\* returns None for a key that was never saved.
C20_SaveReplacesWhole ==
    /\ [](SavedIsLoaded /\ LoadOfNoFile)
    /\ [][OnlySavedKeyChanges]_vars

\* a save over a file that held other events of another owner, while the
\* other key has a file too
C20_Witness ==
    /\ call.fn = "save_synced_state"
    /\ call.before # NoFile
    /\ DOMAIN call.before.events = {"u1", "u2"}
    /\ DOMAIN call.events = {"u1"}
    /\ \A a \in Agendas : files[a] # NoFile

(***************************************************************************)
(* Duplicate identity keys in the inputs of the diff engine (checked under *)
(* DiffSpec).                                                              *)
(***************************************************************************)
\* the <<upn, x>> entries a diff reports, all three lists together
ReportedKeys(kind, d) ==
    [i \in 1..Len(d.added) |->
        IdentityKey(kind, d.added[i][1], d.added[i][2])]
    \o [i \in 1..Len(d.removed) |->
        IdentityKey(kind, d.removed[i][1], d.removed[i][2])]
    \o [i \in 1..Len(d.changed) |->
        IdentityKey(kind, d.changed[i][1], d.changed[i][2])]

HasDuplicateKey(kind, m) ==
    \E u \in DOMAIN m : \E i, j \in 1..Len(m[u]) :
        i < j /\ IdentityKey(kind, u, m[u][i]) = IdentityKey(kind, u, m[u][j])

\* C21: when an owner's desired slots (or old events) repeat an identity
\* key, compute_*_diff returns, each (owner, identity key) appears at most
\* once across added, removed and changed, and every reported entry is
\* built from the last entry with that key, in input order.
C21_LastDuplicateWins ==
    DiffReturned =>
        LET kind == DiffKind
            d == ret.value
            old == call.old_events
            new == call.new_schedule
            keys == ReportedKeys(kind, d)
        IN /\ \A i, j \in 1..Len(keys) : keys[i] = keys[j] => i = j
           /\ \A i \in 1..Len(d.added) :
                d.added[i][2]
                = LastWith(kind, new,
                           IdentityKey(kind, d.added[i][1], d.added[i][2]))
           /\ \A i \in 1..Len(d.removed) :
                d.removed[i][2]
                = LastWith(kind, old,
                           IdentityKey(kind, d.removed[i][1], d.removed[i][2]))
           /\ \A i \in 1..Len(d.changed) :
                LET k == IdentityKey(kind, d.changed[i][1], d.changed[i][2])
                IN /\ d.changed[i][2] = LastWith(kind, old, k)
                   /\ d.changed[i][3] = LastWith(kind, new, k)
           /\ \A k \in InputKeys(kind, old) \cap InputKeys(kind, new) :
                (\E i \in 1..Len(keys) : keys[i] = k)
                <=> MutableDiffers(kind, LastWith(kind, old, k),
                                   LastWith(kind, new, k))

\* the desired slots of an owner repeat a key with different ends, the old
\* snapshot repeats a key too, and the diff reports a changed entry
C21_Witness ==
    /\ DiffReturned
    /\ HasDuplicateKey(DiffKind, call.old_events)
    /\ \E i, j \in 1..Len(Get(call.new_schedule, "u1", <<>>)) :
         /\ i < j
         /\ IdentityKey(DiffKind, "u1", call.new_schedule["u1"][i])
            = IdentityKey(DiffKind, "u1", call.new_schedule["u1"][j])
         /\ call.new_schedule["u1"][i] # call.new_schedule["u1"][j]
    /\ ret.value.changed # <<>>

(***************************************************************************)
(* Properties of the snapshot across runs (checked under Spec).            *)
(***************************************************************************)
\* the <<upn, event>> entries of the state file of `agenda`
FileEntries(fs, agenda) ==
    IF fs[agenda] = NoFile THEN {} ELSE Range(Flatten(fs[agenda].events))

\* an event found under the same external id in the snapshot before and
\* after a step is the same event under the same owner; an id new to the
\* snapshot is the id a successful create call of the run answered with
SnapshotEventsFixed ==
    \A a \in Agendas :
        \A e \in FileEntries(files', a) :
            /\ \A f \in FileEntries(files, a) :
                   OldId(e[2]) = OldId(f[2]) => e = f
            /\ OldId(e[2]) \notin {OldId(f[2]) : f \in FileEntries(files, a)}
               => \E j \in 1..Len(run'[1].calls) :
                      /\ run'[1].calls[j].op = "create"
                      /\ run'[1].calls[j].status \in {200, 201}
                      /\ run'[1].calls[j].id = OldId(e[2])
                      /\ run'[1].calls[j].upn = e[1]

\* the snapshot lists an external id once, and only ids already handed out
SnapshotIdsUnique ==
    \A a \in Agendas :
        \A e, f \in FileEntries(files, a) :
            /\ OldId(e[2]) = OldId(f[2]) => e = f
            /\ OldId(e[2]) < nextId

\* C22: a snapshot event keeps the same fields (owner, identity key, end,
\* online, subject) under its external id in every later snapshot that
\* lists the id; an id enters the snapshot only through a successful create
\* call and leaves it only by being dropped whole.
C22_SnapshotEventsImmutable ==
    [](SnapshotIdsUnique) /\ [][SnapshotEventsFixed]_vars

\* a diff run was saved that kept an old event and recorded a new one
C22_Witness ==
    /\ DiffRunDone
    /\ IdsOf(Runner.old_events) \cap SnapshotIds # {}
    /\ SnapshotIds \ IdsOf(Runner.old_events) # {}

(***************************************************************************)
(* Two invocations of main() over the same scope key, interleaved at the   *)
(* remote calls: nothing in main() locks the state file.                   *)
(***************************************************************************)
\* a saved snapshot whose events are all live; the scope was synced before
ConcInit ==
    /\ nextId = 1
    /\ now = 0
    /\ call = NoCall
    /\ ret = NoCall
    /\ run = [r \in Runners |-> IdleRun("method")]
    /\ \E stored \in {m \in MethodDesired :
                        \A u \in DOMAIN m : u = "u1" /\ Len(m[u]) = 1} :
         LET old_events == [u \in DOMAIN stored |->
                               StoredWithout("method", u, stored[u], {})]
         IN /\ files = save_synced_state([a \in Agendas |-> NoFile], 0,
                           StateAgenda("method"), SyncType("method"),
                           old_events)
            /\ remote = UNION {LiveOf("method", u, stored[u], old_events[u]) :
                                   u \in DOMAIN stored}

\* each runner runs main() once, on the diff path
ConcStep(r) ==
    \/ Start(r)
    \/ DeleteRemoved(r)
    \/ ChangedDelete(r)
    \/ ChangedCreate(r)
    \/ AddedCreate(r)
    \/ MergeSave(r)

ConcNext == \E r \in Runners : ConcStep(r)

ConcSpec == ConcInit /\ [][ConcNext]_vars

OtherRunner(r) == 3 - r

InProgress(r) == run[r].pc \in ApplyPcs \cup {"merge"}

\* runner r works on a snapshot that is no longer the one in the state file
Stale(r) ==
    /\ InProgress(r)
    /\ run[r].old_events # files[StateAgenda(run[r].kind)].events

\* a run works on a stale snapshot only when the other run loaded the same
\* snapshot and has saved since: the two overlapped
StaleOnlyByOverlap ==
    \A r \in Runners :
        Stale(r) => /\ run[OtherRunner(r)].pc = "done"
                    /\ run[OtherRunner(r)].last = "diff"
                    /\ run[OtherRunner(r)].old_events = run[r].old_events

\* a run that starts loads what the state file holds, which is what the
\* last save wrote
StartLoadsSaved ==
    \A r \in Runners :
        (run[r].pc = "idle" /\ run'[r].pc # "idle")
        => run'[r].old_events = files[StateAgenda(run[r].kind)].events

\* C23: two runs over one scope key that both load the snapshot before
\* either saves can leave two live events for one (owner, identity key) and
\* a final snapshot that omits a live event of the run that saved first (the
\* state C23_Witness describes is reached); a run has a stale snapshot only
\* through such an overlap, and a run started after the previous one has
\* saved loads the snapshot that run saved.
C23_SerializedRunsLoadLastSave ==
    [](StaleOnlyByOverlap) /\ [][StartLoadsSaved]_vars

\* both runs loaded the same snapshot, none of their calls failed, and the
\* store holds two events they created under one key, one of them unlisted
C23_Witness ==
    /\ \A r \in Runners :
         run[r].pc = "done" /\ run[r].last = "diff" /\ run[r].failed = 0
    /\ run[1].old_events = run[2].old_events
    /\ \E e1, e2 \in remote :
         /\ e1 # e2
         /\ RemoteKey(e1) = RemoteKey(e2)
         /\ e1.id <= MaxIds /\ e2.id <= MaxIds
         /\ e1.id \notin SnapshotIds

(***************************************************************************)
(* compute_*_diff called twice by one caller on the mappings it holds.     *)
(* The function builds its two indexes and its result lists from the       *)
(* arguments and assigns to none of them, so the caller holds after the    *)
(* call what it held before.                                               *)
(***************************************************************************)
\* consumed: the old mapping emptied while it is indexed
DiffArgumentsAfterConsumed(kind, old_events, new_schedule) ==
    <<[u \in DOMAIN old_events |-> <<>>], new_schedule>>

\* the <<old_events, new_schedule>> the caller holds after a call
DiffArgumentsAfter(kind, old_events, new_schedule) ==
    <<old_events, new_schedule>>

\* the first call; `given` keeps the arguments as they were passed
CallDiffOnce ==
    /\ ret = NoCall
    /\ LET kind == IF call.fn = "compute_method_diff" THEN "method" ELSE "vip"
           after == DiffArgumentsAfter(kind, call.old_events, call.new_schedule)
       IN /\ ret' = [fn |-> call.fn,
                     value |-> ComputeDiffOf(kind, call.old_events,
                                             call.new_schedule),
                     given |-> <<call.old_events, call.new_schedule>>]
          /\ call' = [call EXCEPT !.old_events = after[1],
                                  !.new_schedule = after[2]]
    /\ UNCHANGED <<files, remote, nextId, now, run>>

\* the second call, on what the caller holds now
CallDiffAgain ==
    /\ ret # NoCall
    /\ "again" \notin DOMAIN ret
    /\ LET kind == IF call.fn = "compute_method_diff" THEN "method" ELSE "vip"
           after == DiffArgumentsAfter(kind, call.old_events, call.new_schedule)
       IN /\ ret' = [again |-> ComputeDiffOf(kind, call.old_events,
                                             call.new_schedule)] @@ ret
          /\ call' = [call EXCEPT !.old_events = after[1],
                                  !.new_schedule = after[2]]
    /\ UNCHANGED <<files, remote, nextId, now, run>>

DiffTwiceNext == CallDiffOnce \/ CallDiffAgain

DiffTwiceSpec == DiffInit /\ [][DiffTwiceNext]_vars

SavedFromDesired == call.old_events = StoredMap(DiffKind, call.new_schedule)

\* C25: when every remote call of a run succeeded, diffing the snapshot it
\* saved against the same desired schedule gives empty added, removed and
\* changed lists, for recurring and for dated slots, dated slots without an
\* online or type field included.
C25_SecondRunIsNoOp ==
    (DiffReturned /\ SavedFromDesired) => IsEmptyDiff(ret.value)

(***************************************************************************)
(* Serialized runs that settle: from some run on the schedule files stay   *)
(* as they are and every remote call succeeds.  `call` holds the schedule  *)
(* the runs are then made with.                                            *)
(***************************************************************************)
Settled == call # NoCall /\ call.fn = "settled"

\* between two runs of a synced scope: the desired schedule is fixed from
\* here on
Settle ==
    /\ call = NoCall
    /\ run[1].pc = "idle"
    /\ files[StateAgenda(run[1].kind)] # NoFile
    /\ \E new_schedule \in DesiredSchedules(run[1].kind) :
         call' = [fn |-> "settled", new_schedule |-> new_schedule]
    /\ UNCHANGED <<files, remote, nextId, now, run, ret>>

\* the steps of main() after it has read its inputs
Proceed(r) ==
    \/ DeleteRemoved(r)
    \/ ChangedDelete(r)
    \/ ChangedCreate(r)
    \/ AddedCreate(r)
    \/ MergeSave(r)
    \/ FirstClear(r)
    \/ FirstCreate(r)
    \/ FirstSave(r)
    \/ Finish(r)

\* a step of main() before the schedule is fixed: any schedule, any outcome
\* of a call
UnsettledStep == ~Settled /\ Step(1)

\* a step of main() with the fixed schedule, in which no call fails
SettledStep ==
    /\ Settled
    /\ StartWith(1, call.new_schedule) \/ Proceed(1)
    /\ run'[1].failed <= run[1].failed

ConvInit ==
    /\ files = [a \in Agendas |-> NoFile]
    /\ remote = {}
    /\ nextId = 1
    /\ now = 0
    /\ run = [r \in Runners |-> IdleRun("method")]
    /\ call = NoCall
    /\ ret = NoCall

ConvNext == Settle \/ UnsettledStep \/ SettledStep

\* a scheduled scope keeps being run
ConvSpec == ConvInit /\ [][ConvNext]_vars /\ WF_vars(SettledStep)

\* the live events are exactly the desired slots: one event per slot, with
\* the slot's body, and no other event
Converged ==
    Settled /\
    LET wanted == Range(Flatten(call.new_schedule))
    IN /\ {<<e.upn, e.body>> : e \in remote}
          = {<<w[1], BuildBody(Runner.kind, w[2])>> : w \in wanted}
       /\ Cardinality(remote) = Cardinality(wanted)

\* the run has an event to create and the remote store of the model has no
\* id left to hand out
StoreExhausted ==
    nextId > MaxIds /\ Runner.pc \in {"changed_create", "added", "create"}

\* C26: with a fixed desired schedule of unique identity keys, once every
\* remote call succeeds, finitely many further serialized runs make the
\* live sync-created events equal to the desired schedule, and they stay so
\* (a failed create is retried as added, an event whose delete failed is
\* deleted by a later run).
C26_RunsConverge == [](Settled => <>([]Converged \/ StoreExhausted))

(***************************************************************************)
(* The ids of the persisted snapshot against the remote store.             *)
(***************************************************************************)
LiveIds == {e.id : e \in remote}

\* the external ids the persisted snapshot records
RecordedIds == {id \in SnapshotIds : TruthyId(id)}

\* the ids the create calls of the run were answered with
CreatedIds ==
    {Runner.calls[j].id : j \in {i \in 1..Len(Runner.calls) :
        Runner.calls[i].op = "create" /\ CallSucceeded(Runner.calls[i])}}

FailedCreates ==
    {i \in 1..Len(Runner.calls) :
        Runner.calls[i].op = "create" /\ ~CallSucceeded(Runner.calls[i])}

\* C27: after every completed run of a scope that is the only writer, every
\* external id recorded in the persisted snapshot is the id of a live remote
\* event: no event whose delete succeeded is kept in the snapshot, and the
\* run adds to it only the ids its successful creates were answered with.
C27_SnapshotIdsLive ==
    RunDone =>
        /\ RecordedIds \subseteq LiveIds
        /\ DiffRunDone =>
              /\ RecordedIds \cap DeletedIds = {}
              /\ RecordedIds \subseteq IdsOf(Runner.old_events) \cup CreatedIds

C27_Witness ==
    /\ DiffRunDone
    /\ DeletedIds # {}
    /\ FailedCreates # {}
    /\ RecordedIds # {}

(***************************************************************************)
(* What a run on the diff path writes, and when.                           *)
(***************************************************************************)
\* the diff main() computes when it is started on the state file with the
\* schedule the run is then made with
DiffAtStart ==
    ComputeDiffOf(Runner.kind, files[RunAgenda].events, run'[1].new_schedule)

NothingToDo(d) == d.added = <<>> /\ d.removed = <<>> /\ d.changed = <<>>

StartsOnFile ==
    Runner.pc = "idle" /\ run'[1].pc # "idle" /\ files[RunAgenda] # NoFile

ApplyPhases == {"removed", "changed", "changed_create", "added"}

\* the state file as save_synced_state writes it for the merged snapshot
SavedMerged ==
    [files EXCEPT ![RunAgenda] =
        [synced_at |-> now, agenda |-> RunAgenda,
         sync_type |-> SyncType(Runner.kind),
         events |-> merge_synced_events(Runner.old_events, Runner.diff,
                                        Runner.synced_events)]]

\* a run with an empty diff returns at once: no call, nothing written
NoopRunWritesNothing ==
    /\ (StartsOnFile /\ NothingToDo(DiffAtStart)) =>
          /\ run'[1].pc = "done" /\ run'[1].calls = <<>>
          /\ files' = files /\ remote' = remote
    /\ (RunDone /\ Runner.calls = <<>> /\ Runner.last # "first") =>
          files' = files /\ remote' = remote

\* a run with a non-empty diff goes through apply_*_diff, writes nothing
\* while it makes its calls, then saves the merged snapshot in one step that
\* makes no call, and writes nothing after it
DiffRunSavesOnce ==
    /\ (StartsOnFile /\ ~NothingToDo(DiffAtStart)) =>
          run'[1].pc \in ApplyPhases /\ files' = files
    /\ Runner.pc \in ApplyPhases =>
          run'[1].pc \in ApplyPhases \cup {"merge"} /\ files' = files
    /\ Runner.pc = "merge" =>
          /\ files' = SavedMerged
          /\ run'[1].pc = "done" /\ run'[1].calls = Runner.calls
          /\ remote' = remote
    /\ DiffRunDone => files' = files /\ remote' = remote

\* C28: an execute run whose diff has empty added, removed and changed lists
\* makes no create or delete call and leaves the persisted snapshot, its
\* synced_at included, unchanged; a run with a non-empty diff saves the
\* merged snapshot exactly once, after all remote calls of apply_*_diff have
\* returned, whether or not some of them failed.
C28_SaveOnceOrNever ==
    [][NoopRunWritesNothing /\ DiffRunSavesOnce]_vars

\* a run that found nothing to do on the snapshot an earlier run on the diff
\* path saved
C28_Witness ==
    /\ RunDone /\ Runner.last = "noop"
    /\ Runner.new_schedule # <<>>
    /\ RecordedIds # {}
    /\ files[RunAgenda].synced_at = 1

(***************************************************************************)
(* The desired schedule as main() builds it from the schedule files:       *)
(* load_and_merge_schedules, match_all_teachers, new_schedule_by_upn.      *)
(***************************************************************************)
\* the tuple the loaders de-duplicate slots on
DedupeKey(kind, s) ==
    IF kind = "method" THEN <<s["day"], s["start"], s["end"]>>
    ELSE <<s["date"], s["start"], s["end"], s["type"], s["online"]>>

\* for slot in slots: if key not in existing: append, from slot i on
RECURSIVE AppendNew(_, _, _, _)
AppendNew(kind, have, slots, i) ==
    IF i > Len(slots) THEN have
    ELSE LET existing == {DedupeKey(kind, have[j]) : j \in 1..Len(have)}
         IN AppendNew(kind,
                      IF DedupeKey(kind, slots[i]) \in existing THEN have
                      ELSE Append(have, slots[i]),
                      slots, i + 1)

\* the position of `name` among the entries <<name, ...>>, 0 when absent
PositionOf(entries, at, name) ==
    IF \E k \in 1..Len(entries) : entries[k][at] = name
    THEN CHOOSE k \in 1..Len(entries) : entries[k][at] = name
    ELSE 0

\* for name, slots in data.items(), from entry i on; a dict is the sequence
\* of its <<name, slots>> items
RECURSIVE MergeItems(_, _, _, _)
MergeItems(kind, merged, items, i) ==
    IF i > Len(items) THEN merged
    ELSE LET name == items[i][1]
             slots == items[i][2]
             k == PositionOf(merged, 1, name)
         IN MergeItems(kind,
                IF k = 0 THEN Append(merged, <<name, slots>>)
                ELSE [merged EXCEPT
                         ![k] = <<name, AppendNew(kind, merged[k][2], slots, 1)>>],
                items, i + 1)

\* for agenda in agendas, from file i on
RECURSIVE MergeFiles(_, _, _, _)
MergeFiles(kind, merged, data, i) ==
    IF i > Len(data) THEN merged
    ELSE MergeFiles(kind, MergeItems(kind, merged, data[i], 1), data, i + 1)

load_and_merge_schedules(kind, data) == MergeFiles(kind, <<>>, data, 1)

\* for raw_name, slots in merged_schedules.items(), from entry i on;
\* teachers[raw_name] is the upn match_teacher finds for the name, or None
RECURSIVE MatchFrom(_, _, _, _, _)
MatchFrom(kind, matched, merged_schedules, teachers, i) ==
    IF i > Len(merged_schedules) THEN matched
    ELSE LET raw_name == merged_schedules[i][1]
             slots == merged_schedules[i][2]
             upn == teachers[raw_name]
             idx == PositionOf(matched, 2, upn)
         IN MatchFrom(kind,
                IF upn = None THEN matched
                ELSE IF idx # 0
                THEN [matched EXCEPT
                         ![idx] = <<matched[idx][1], upn,
                                    AppendNew(kind, matched[idx][3], slots, 1)>>]
                ELSE Append(matched, <<raw_name, upn, slots>>),
                merged_schedules, teachers, i + 1)

match_all_teachers(kind, merged_schedules, teachers) ==
    MatchFrom(kind, <<>>, merged_schedules, teachers, 1)

\* for display_name, upn, slots in matched: new_schedule_by_upn[upn] = slots
new_schedule_by_upn(matched) ==
    [upn \in {matched[i][2] : i \in 1..Len(matched)} |->
        matched[PositionOf(matched, 2, upn)][3]]

\* the slots of the schedule files: two that differ in a field outside the
\* identity key, and one at another start
FileSlots(kind) ==
    IF kind = "method"
    THEN [day : {"Monday"}, start : {"09:00"}, end : {"10:00", "11:00"}]
         \cup [day : {"Monday"}, start : {"09:01"}, end : {"10:00"}]
    ELSE [date : {"2026-01-05"}, start : {"09:00"}, end : {"10:00"},
          type : {"VAD"}, name : {"n"}, online : {"False", "True"}]
         \cup [date : {"2026-01-05"}, start : {"09:01"}, end : {"10:00"},
               type : {"VAD"}, name : {"n"}, online : {"False"}]

\* one teacher's slots in one schedule file: no two at the same identity key
FileSlotLists(kind) ==
    {l \in SeqsUpTo(FileSlots(kind), MaxLen) :
        \A i, j \in 1..Len(l) :
            KeyOf(kind, "u1", l[i]) = KeyOf(kind, "u1", l[j]) => i = j}

\* the first agenda's file names teacher n1; the second may name n1 again
\* and may name n2, who may be the same person under another spelling
FirstFiles(kind) == {<<<<"n1", l>>>> : l \in FileSlotLists(kind)}

SecondFiles(kind) ==
    LET n1 == {<<>>} \cup {<<<<"n1", l>>>> : l \in FileSlotLists(kind)}
        n2 == {<<>>} \cup {<<<<"n2", l>>>> : l \in FileSlotLists(kind)}
    IN {a \o b : a \in n1, b \in n2}

TeacherLookups == {[n1 |-> "u1", n2 |-> u] : u \in {"u1", "u2", None}}

BuildInit ==
    /\ files = [a \in Agendas |-> NoFile]
    /\ remote = {}
    /\ nextId = 1
    /\ now = 0
    /\ run = [r \in Runners |-> IdleRun("method")]
    /\ \E kind \in {"method", "vip"} :
         \E first \in FirstFiles(kind), second \in SecondFiles(kind),
            teachers \in TeacherLookups :
           call = [fn |-> "main", kind |-> kind, data |-> <<first, second>>,
                   teachers |-> teachers]
    /\ ret = NoCall

CallLoadAndMerge ==
    /\ ret = NoCall
    /\ ret' = [fn |-> "load_and_merge_schedules",
               value |-> load_and_merge_schedules(call.kind, call.data)]
    /\ UNCHANGED <<files, remote, nextId, now, run, call>>

CallMatchAllTeachers ==
    /\ ret.fn = "load_and_merge_schedules"
    /\ ret' = [fn |-> "match_all_teachers",
               value |-> new_schedule_by_upn(
                   match_all_teachers(call.kind, ret.value, call.teachers))]
    /\ UNCHANGED <<files, remote, nextId, now, run, call>>

BuildNext == CallLoadAndMerge \/ CallMatchAllTeachers

BuildSpec == BuildInit /\ [][BuildNext]_vars

\* no two slots of one owner share the identity key
UniqueKeys(kind, new_schedule) ==
    \A upn \in DOMAIN new_schedule :
        \A i, j \in 1..Len(new_schedule[upn]) :
            KeyOf(kind, upn, new_schedule[upn][i])
              = KeyOf(kind, upn, new_schedule[upn][j]) => i = j

\* C29: the desired schedule main() passes to compute_method_diff /
\* compute_vip_diff, built by load_and_merge_schedules and
\* match_all_teachers, has unique identity keys per owner.
C29_DesiredKeysUnique ==
    ret.fn = "match_all_teachers" => UniqueKeys(call.kind, ret.value)

(***************************************************************************)
(* The anchor date of a recurring event: next_weekday and the body          *)
(* build_event_body gives it.  A date is its year, month and day.           *)
(***************************************************************************)
DAY_INDEX ==
    [Monday |-> 0, Tuesday |-> 1, Wednesday |-> 2, Thursday |-> 3,
     Friday |-> 4, Saturday |-> 5, Sunday |-> 6]

GRAPH_DAY ==
    <<"monday", "tuesday", "wednesday", "thursday", "friday", "saturday",
      "sunday">>

CalendarYears == 2026..2028

IsLeap(y) == y % 4 = 0 /\ (y % 100 # 0 \/ y % 400 = 0)

DaysInMonth(y, m) ==
    IF m = 2 THEN (IF IsLeap(y) THEN 29 ELSE 28)
    ELSE IF m \in {4, 6, 9, 11} THEN 30 ELSE 31

CalendarDates ==
    {d \in [year : CalendarYears, month : 1..12, day : 1..31] :
        d.day <= DaysInMonth(d.year, d.month)}

RECURSIVE DaysBeforeMonth(_, _)
DaysBeforeMonth(y, m) ==
    IF m = 1 THEN 0 ELSE DaysBeforeMonth(y, m - 1) + DaysInMonth(y, m - 1)

RECURSIVE DaysBeforeYear(_)
DaysBeforeYear(y) ==
    IF y = 2026 THEN 0
    ELSE DaysBeforeYear(y - 1) + (IF IsLeap(y - 1) THEN 366 ELSE 365)

\* date.toordinal(), counted from 2026-01-01
Ordinal(d) == DaysBeforeYear(d.year) + DaysBeforeMonth(d.year, d.month) + d.day - 1

\* date.weekday(): Monday is 0; 2026-01-01 is a Thursday
weekday(d) == (Ordinal(d) + 3) % 7

\* date + timedelta(days=n)
AddDays(d, n) == CHOOSE e \in CalendarDates : Ordinal(e) = Ordinal(d) + n

\* str(date): YYYY-MM-DD, as its parts
IsoFormat(d) == <<d.year, "-", d.month, "-", d.day>>

\* the next occurrence strictly after from_date
next_weekday_after(target, from_date) ==
    AddDays(from_date, ((target - weekday(from_date) - 1) % 7) + 1)

next_weekday(target, from_date) ==
    LET days_ahead == (target - weekday(from_date)) % 7
    IN AddDays(from_date, days_ahead)

\* build_event_body with the dates the abstract body leaves out
build_event_body_dated(slot, today) ==
    LET weekday_num == DAY_INDEX[slot["day"]]
        start_date == next_weekday(weekday_num, today)
    IN [subject |-> CALENDAR_EVENT_SUBJECT,
        start |-> [dateTime |-> <<IsoFormat(start_date), "T", slot["start"], ":00">>,
                   timeZone |-> "Europe/Zurich"],
        end |-> [dateTime |-> <<IsoFormat(start_date), "T", slot["end"], ":00">>,
                 timeZone |-> "Europe/Zurich"],
        showAs |-> "busy",
        isReminderOn |-> "False",
        recurrence |->
            [pattern |-> [type |-> "weekly", interval |-> 1,
                          daysOfWeek |-> <<GRAPH_DAY[weekday_num + 1]>>,
                          firstDayOfWeek |-> "monday"],
             range |-> [type |-> "noEnd",
                        startDate |-> IsoFormat(start_date),
                        recurrenceTimeZone |-> "Europe/Zurich"]]]

\* the reference dates: the turn of a year and the end of a leap February
ReferenceDates ==
    {d \in CalendarDates :
        \/ d.year = 2026 /\ d.month = 12 /\ d.day >= 22
        \/ d.year = 2027 /\ d.month = 1 /\ d.day <= 4
        \/ d.year = 2028 /\ d.month = 2 /\ d.day >= 23
        \/ d.year = 2028 /\ d.month = 3 /\ d.day <= 7}

AnchorSlots ==
    [day : DOMAIN DAY_INDEX, start : {"09:00"}, end : {"10:00"}]

AnchorInit ==
    /\ files = [a \in Agendas |-> NoFile]
    /\ remote = {}
    /\ nextId = 1
    /\ now = 0
    /\ run = [r \in Runners |-> IdleRun("method")]
    /\ \E today \in ReferenceDates, slot \in AnchorSlots :
         call = [fn |-> "main", today |-> today, slot |-> slot]
    /\ ret = NoCall

CallNextWeekday ==
    /\ ret = NoCall
    /\ \E target \in 0..6 :
         ret' = [fn |-> "next_weekday", target |-> target,
                 value |-> next_weekday(target, call.today)]
    /\ UNCHANGED <<files, remote, nextId, now, run, call>>

CallBuildEventBody ==
    /\ ret = NoCall
    /\ ret' = [fn |-> "build_event_body",
               value |-> build_event_body_dated(call.slot, call.today)]
    /\ UNCHANGED <<files, remote, nextId, now, run, call>>

AnchorNext == CallNextWeekday \/ CallBuildEventBody

AnchorSpec == AnchorInit /\ [][AnchorNext]_vars

\* d is the first date from from_date on that falls on weekday target
FirstOnWeekday(d, target, from_date) ==
    /\ Ordinal(from_date) <= Ordinal(d)
    /\ Ordinal(d) <= Ordinal(from_date) + 6
    /\ weekday(d) = target
    /\ weekday(from_date) = target => d = from_date

\* C30: for every weekday target in 0..6 and every reference date,
\* next_weekday(target, from_date) is a date d with
\* from_date <= d <= from_date + 6 days and weekday(d) = target (from_date
\* itself when it falls on the target weekday); build_event_body puts that
\* d in the event's start and end dateTime and in the recurrence range's
\* startDate, so the anchor is never before today.
C30_AnchorIsNextWeekday ==
    /\ ret.fn = "next_weekday" =>
          FirstOnWeekday(ret.value, ret.target, call.today)
    /\ ret.fn = "build_event_body" =>
          \E d \in CalendarDates :
            /\ FirstOnWeekday(d, DAY_INDEX[call.slot.day], call.today)
            /\ ret.value.start.dateTime[1] = IsoFormat(d)
            /\ ret.value.end.dateTime[1] = IsoFormat(d)
            /\ ret.value.recurrence.range.startDate = IsoFormat(d)
            /\ Ordinal(d) >= Ordinal(call.today)

\* a body built on a day that is not the slot's weekday, across the end of
\* a month
C30_Witness ==
    /\ ret.fn = "build_event_body"
    /\ weekday(call.today) # DAY_INDEX[call.slot.day]
    /\ ret.value.recurrence.range.startDate[3] # call.today.month

====
